---- MODULE Spec2Model ----
(***************************************************************************)
(* Model of expose (src/src/cli.ts, src/src/index.ts): the commands of    *)
(* the CLI (add --path, add VAR=value, add --delete, init, uninstall,      *)
(* alias) and the helper functions they are built from (addDirToPath,      *)
(* addToPath, removeFromPath, ensureAliasDirInPath).                       *)
(*                                                                         *)
(* A string is a sequence of one-character strings, so that the            *)
(* conversions of the code (trailing-separator stripping, splitting on     *)
(* ';', joining, case folding, trimming) are computed and not assumed.     *)
(*                                                                         *)
(* The environment store is reached through PowerShell scripts.  Each      *)
(* script is modelled by an operator PS_<function> from the value the      *)
(* store holds to a record                                                 *)
(*   [path   : the value of PATH after the script,                         *)
(*    writes : the values passed to SetEnvironmentVariable, in order,      *)
(*    code   : the exit code of the powershell process,                    *)
(*    stdout, stderr : the sets of messages written to each stream].       *)
(* PowerShell facts the scripts depend on:                                 *)
(*  - -contains and -ne compare strings case-insensitively;                *)
(*  - Write-Host writes to the standard output of powershell.exe, never    *)
(*    to its standard error;                                               *)
(*  - a unary -not binds tighter than -contains;                           *)
(*  - comparing a boolean with a string converts the string to a boolean   *)
(*    (non-empty = true);                                                  *)
(*  - a bare word true/false is a command name, not a boolean literal:     *)
(*    running it is a statement-terminating CommandNotFound error, which   *)
(*    abandons the enclosing if statement and continues with the next      *)
(*    statement of the script;                                             *)
(*  - an unassigned variable is $null; SetEnvironmentVariable with a null  *)
(*    or empty value deletes the variable;                                 *)
(*  - with -Command the exit code is that of exit n, else 0 when the       *)
(*    last statement succeeded and 1 when it failed: an exception of       *)
(*    SetEnvironmentVariable ends its statement only, so a script that     *)
(*    goes on to Write-Host exits 0 and a one-statement script exits 1.    *)
(***************************************************************************)
EXTENDS Integers, Sequences, FiniteSets, TLC

VARIABLES
    env,        \* the environment store: PATH of scope "User" and "Machine",
                \* and the variable V of each scope
    elevated,   \* the process may write the Machine scope
    fault,      \* what is broken: nothing, the writes to the User store, or
                \* the start of powershell
    inflight,   \* the script or command in progress: a script that has read
                \* PATH and not yet written, or a command and its position
    bunExists,  \* ~/.bun/bin exists on disk
    fs,         \* the rest of the file system: directories, files and contents
    fsPre,      \* the file system before the command that ran last
    live,       \* alias names created and not removed since the start
    last,       \* the command (or helper call) that ran last, and its outcome
    prev,       \* the command that ran before it
    n           \* number of commands run so far

vars == <<env, elevated, fault, inflight, bunExists, fs, fsPre, live, last, prev, n>>

----------------------------------------------------------------------------
(* Bounds *)

MaxCmds == 2

----------------------------------------------------------------------------
(* Strings *)

Empty == <<>>

\* s.toLowerCase() / the case folding of PowerShell's string comparison
LowerChar(c) ==
    CASE c = "A" -> "a"
      [] c = "B" -> "b"
      [] c = "C" -> "c"
      [] c = "H" -> "h"
      [] c = "L" -> "l"
      [] c = "N" -> "n"
      [] c = "X" -> "x"
      [] c = "Y" -> "y"
      [] OTHER -> c

Lower(s) == [i \in 1..Len(s) |-> LowerChar(s[i])]

\* a comparison that tells letter case apart (-ccontains, -cne)
EqExactCase(s, t) == s = t

EqIgnoreCase(s, t) == Lower(s) = Lower(t)

\* s.replace(/\/$/, ""): drops one trailing '/'
StripOneSlash(s) ==
    IF Len(s) > 0 /\ s[Len(s)] = "/" THEN SubSeq(s, 1, Len(s) - 1) ELSE s

\* s.replace(/\\+$/, ""): drops every trailing '\'
RECURSIVE StripBackslashes(_)
StripBackslashes(s) ==
    IF Len(s) > 0 /\ s[Len(s)] = "\\"
    THEN StripBackslashes(SubSeq(s, 1, Len(s) - 1))
    ELSE s

normalizedPath(p) == StripBackslashes(StripOneSlash(p))

\* s.split(";") and  $s -split ';' : never the empty list
RECURSIVE Split(_)
Split(s) ==
    IF \E i \in 1..Len(s) : s[i] = ";"
    THEN LET k == CHOOSE i \in 1..Len(s) :
                      s[i] = ";" /\ \A j \in 1..(i - 1) : s[j] # ";"
         IN  <<SubSeq(s, 1, k - 1)>> \o Split(SubSeq(s, k + 1, Len(s)))
    ELSE <<s>>

\* $list -join ';'
RECURSIVE Join(_)
Join(l) ==
    IF l = <<>> THEN Empty
    ELSE IF Len(l) = 1 THEN l[1]
    ELSE l[1] \o <<";">> \o Join(Tail(l))

IsSpace(c) == c = " "

\* s.trim()
RECURSIVE Trim(_)
Trim(s) ==
    IF Len(s) > 0 /\ IsSpace(s[1]) THEN Trim(Tail(s))
    ELSE IF Len(s) > 0 /\ IsSpace(s[Len(s)]) THEN Trim(SubSeq(s, 1, Len(s) - 1))
    ELSE s

IncludesPart(l, x) ==
    \E i \in 1..Len(l) :
        \E k \in 0..(Len(l[i]) - Len(x)) : SubSeq(l[i], k + 1, k + Len(x)) = x

\* list.includes(x) of JavaScript: exact comparison
Includes(l, x) == \E i \in 1..Len(l) : l[i] = x

\* substring test: s.includes(t) of JavaScript
IsSubstring(t, s) ==
    \E i \in 0..(Len(s) - Len(t)) : SubSeq(s, i + 1, i + Len(t)) = t

----------------------------------------------------------------------------
(* Directories of the program *)

userProfile == <<"h">>

\* path.join(a, b) on Windows
PathJoin(a, b) == a \o <<"\\">> \o b

bunBinDir == PathJoin(PathJoin(userProfile, <<".">>), <<"n">>)
aliasDir == PathJoin(userProfile, <<"l">>)

\* path.dirname(process.execPath)
execDir == <<"x">>

\* process.cwd(), the directory the commands are run from
cwd == <<"\\", "t">>

----------------------------------------------------------------------------
(* PowerShell *)

\* the value of an unassigned variable, and of a missing environment
\* variable; as a string it is the empty string
PSNull == Empty

\* $paths -contains "x": some element equals x, ignoring case
PSContains(paths, x) == \E i \in 1..Len(paths) : EqIgnoreCase(paths[i], x)

\* Where-Object with -eq in place of -ne: keeps what it should drop
PSWhereEq(paths, x) == SelectSeq(paths, LAMBDA e : Lower(e) = Lower(x))

\* $paths | Where-Object { $_ -ne "x" }
RECURSIVE PSWhereNe(_, _)
PSWhereNe(paths, x) ==
    IF paths = <<>> THEN <<>>
    ELSE (IF EqIgnoreCase(paths[1], x) THEN <<>> ELSE <<paths[1]>>)
         \o PSWhereNe(Tail(paths), x)

\* conversion of a value to a boolean: a string is true when non-empty, a
\* one-element array converts as its element, a longer array is true
PSStringToBool(s) == s # Empty
PSArrayToBool(paths) ==
    IF Len(paths) = 1 THEN PSStringToBool(paths[1]) ELSE Len(paths) > 1

\* (-not $paths) -contains "x": the unary -not is applied first, then the
\* boolean is compared with x converted to a boolean
PSNotThenContains(paths, x) == (~PSArrayToBool(paths)) = PSStringToBool(x)

\* if (true) { $v = a } else { $v = b }  with the condition a bare word:
\* the statement is abandoned and $v keeps the value it had
PSIfBareWord(word, unset, a, b) == unset

\* [Environment]::SetEnvironmentVariable("PATH", value, scope) on a store
\* holding path: the value written, or the store unchanged and an error on
\* the error stream when the scope may not be written
SetEnvironmentVariable(path, value, can) ==
    IF can THEN [path |-> value, err |-> {}]
    ELSE [path |-> path, err |-> {"SecurityException"}]

\* spawn("powershell", ...) starts the process
Spawns == fault # "spawn"

\* the store of the scope accepts the writes of this process
CanWrite(scope) == IF scope = "User" THEN fault # "write" ELSE elevated

\* stream.includes(needle) for the messages the scripts can write
StreamIncludes(stream, needle) ==
    \E m \in stream :
        \/ m = needle
        \/ m = "Path already exists in PATH" /\ needle = "Path already exists"

\* handlePathMode's script without the test for an entry already present,
\* appending unconditionally
PS_handlePathMode_NoCheck(path, p, prepend, can) ==
    LET newPath == path \o <<";">> \o p
        set == SetEnvironmentVariable(path, newPath, can)
    IN  [path |-> set.path, writes |-> <<newPath>>, code |-> 0,
         stdout |-> {"Successfully added to PATH"}, stderr |-> set.err]

\* the script of handlePathMode
PS_handlePathMode(path, p, prepend, can) ==
    LET paths == Split(path)
        newPath == PSIfBareWord(prepend, PSNull,
                                p \o <<";">> \o path, path \o <<";">> \o p)
        set == SetEnvironmentVariable(path, newPath, can)
    IN  IF PSContains(paths, p)
        THEN [path |-> path, writes |-> <<>>, code |-> 0,
              stdout |-> {"Path already exists in PATH"}, stderr |-> {}]
        ELSE [path |-> set.path, writes |-> <<newPath>>, code |-> 0,
              stdout |-> {"Successfully added to PATH"},
              stderr |-> {"CommandNotFoundException"} \cup set.err]

\* the adding script without the test for an entry already present
PS_addToPath_NoCheck(path, dir) ==
    LET newPath == path \o <<";">> \o dir
        set == SetEnvironmentVariable(path, newPath, TRUE)
    IN  [path |-> set.path, writes |-> <<newPath>>, code |-> 0,
         stdout |-> {"Successfully added to PATH"}, stderr |-> set.err]

\* the script of addDirToPath, addToPath and ensureAliasDirInPath
PS_addToPath(path, dir) ==
    LET paths == Split(path)
        newPath == path \o <<";">> \o dir
        set == SetEnvironmentVariable(path, newPath, CanWrite("User"))
    IN  IF PSContains(paths, dir)
        THEN [path |-> path, writes |-> <<>>, code |-> 0,
              stdout |-> {"Path already exists"}, stderr |-> {}]
        ELSE [path |-> set.path, writes |-> <<newPath>>, code |-> 0,
              stdout |-> {"Successfully added to PATH"}, stderr |-> set.err]

\* the script of removeFromPath
PS_removeFromPath_FirstOnly(path, dir) ==
    LET paths == Split(path)
        rest == IF Len(paths) <= 1 THEN paths ELSE <<paths[1]>> \o PSWhereNe(Tail(paths), dir)
        newPath == Join(rest)
        set == SetEnvironmentVariable(path, newPath, TRUE)
    IN  [path |-> set.path, writes |-> <<newPath>>, code |-> 0,
         stdout |-> {"Successfully removed from PATH"}, stderr |-> set.err]

PS_removeFromPath(path, dir) ==
    LET paths == Split(path)
        newPath == Join(PSWhereNe(paths, dir))
        set == SetEnvironmentVariable(path, newPath, CanWrite("User"))
    IN  IF PSNotThenContains(paths, dir)
        THEN [path |-> path, writes |-> <<>>, code |-> 0,
              stdout |-> {"Path not found"}, stderr |-> {}]
        ELSE [path |-> set.path, writes |-> <<newPath>>, code |-> 0,
              stdout |-> {"Successfully removed from PATH"},
              stderr |-> set.err]

----------------------------------------------------------------------------
(* The helper functions of cli.ts *)

\* the result of a script when powershell does not start: the error event
NotStarted(path) ==
    [path |-> path, writes |-> <<>>, code |-> 1, stdout |-> {}, stderr |-> {},
     error |-> TRUE]

\* execPowerShell: the code it resolves to and what it prints, given the
\* result r of the script
execPowerShell(r) ==
    IF "error" \in DOMAIN r
    THEN [code |-> 1, out |-> <<"Error executing PowerShell">>]
    ELSE IF StreamIncludes(r.stderr, "Path already exists")
    THEN [code |-> 0, out |-> <<"Path already exists in PATH, no changes made.">>]
    ELSE IF r.code = 0
    THEN [code |-> 0, out |-> <<>>]
    ELSE [code |-> r.code, out |-> IF r.stderr # {} THEN <<"stderr">> ELSE <<>>]

\* getUserPath: the standard output of the read, trimmed; the empty string
\* when powershell does not start
getUserPath(path) == IF Spawns THEN Trim(path) ELSE Empty

\* what a helper that changes PATH returns when powershell does not start
NotSpawned(path, ret) == [path |-> path, writes |-> <<>>, ret |-> ret]

\* addDirToPath attempting its write a second time when the first was refused
addDirToPath_Retry(path, dir) ==
    LET r == PS_addToPath(path, normalizedPath(dir))
    IN  IF ~Spawns THEN NotSpawned(path, 1)
        ELSE [path |-> r.path,
              writes |-> IF r.stderr # {} THEN r.writes \o r.writes ELSE r.writes,
              ret |-> IF StreamIncludes(r.stderr, "Path already exists")
                      THEN 0 ELSE r.code]

\* addDirToPath(dir) on User PATH = path
addDirToPath(path, dir) ==
    LET r == PS_addToPath(path, normalizedPath(dir))
    IN  IF ~Spawns THEN NotSpawned(path, 1)
        ELSE [path |-> r.path, writes |-> r.writes,
              ret |-> IF StreamIncludes(r.stderr, "Path already exists")
                      THEN 0 ELSE r.code]

\* addToPath(dir) on User PATH = path
addToPath(path, dir) ==
    LET r == PS_addToPath(path, dir)
    IN  IF ~Spawns THEN NotSpawned(path, 1)
        ELSE [path |-> r.path, writes |-> r.writes, ret |-> r.code]

\* removeFromPath(dir) on User PATH = path
removeFromPath(path, dir) ==
    LET r == PS_removeFromPath(path, normalizedPath(dir))
    IN  IF ~Spawns THEN NotSpawned(path, FALSE)
        ELSE [path |-> r.path, writes |-> r.writes,
              ret |-> IF StreamIncludes(r.stderr, "Path not found")
                      THEN FALSE ELSE r.code = 0]

\* handlePathMode(p, prepend, isSystem) on PATH of the scope = path
handlePathMode(path, p, prepend, can) ==
    LET r == IF Spawns THEN PS_handlePathMode(path, normalizedPath(p), prepend, can)
             ELSE NotStarted(path)
        e == execPowerShell(r)
    IN  [path |-> r.path, writes |-> r.writes,
         exit |-> IF e.code = 0 THEN 0 ELSE 1,
         out |-> <<"Adding to PATH">> \o e.out \o
                 (IF e.code = 0 THEN <<"Successfully added to PATH">>
                  ELSE <<"Failed to add to PATH">>)]

----------------------------------------------------------------------------
(* Alias shims.  A shim is the file <aliasDir>\<name>.bat.  File names are  *)
(* compared as written.                                                    *)

Quote == "\""

\* the grave accent U+0060, a character a TLA+ string cannot hold
Backtick == "grave"

Letters ==
    { "a", "b", "c", "d", "e", "f", "g", "h", "i", "j", "k", "l", "m", "n",
      "o", "p", "q", "r", "s", "t", "u", "v", "w", "x", "y", "z",
      "A", "B", "C", "D", "E", "F", "G", "H", "I", "J", "K", "L", "M", "N",
      "O", "P", "Q", "R", "S", "T", "U", "V", "W", "X", "Y", "Z" }

Digits == { "0", "1", "2", "3", "4", "5", "6", "7", "8", "9" }

aliasRegexTest_NoDot(name) ==
    /\ name # Empty
    /\ name[1] \in Letters \cup {"_"}
    /\ \A i \in 2..Len(name) : name[i] \in Letters \cup Digits \cup {"_", "-"}

\* /^[a-zA-Z_][a-zA-Z0-9_\-\.]*$/.test(name)
aliasRegexTest(name) ==
    /\ name # Empty
    /\ name[1] \in Letters \cup {"_"}
    /\ \A i \in 2..Len(name) : name[i] \in Letters \cup Digits \cup {"_", "-", "."}

BatSuffix == <<".", "b", "a", "t">>

\* s.endsWith(t)
EndsWith(s, t) ==
    Len(s) >= Len(t) /\ SubSeq(s, Len(s) - Len(t) + 1, Len(s)) = t

\* s.indexOf(t) counted from 1; 0 when t does not occur
IndexOf(s, t) ==
    LET ks == { k \in 1..(Len(s) - Len(t) + 1) : SubSeq(s, k, k + Len(t) - 1) = t }
    IN  IF ks = {} THEN 0 ELSE CHOOSE k \in ks : \A j \in ks : k <= j

\* s.replace(t, r) with a string t: the first occurrence only
ReplaceFirst(s, t, r) ==
    LET k == IndexOf(s, t)
    IN  IF k = 0 THEN s
        ELSE SubSeq(s, 1, k - 1) \o r \o SubSeq(s, k + Len(t), Len(s))

\* s.replace(/"/g, grave + '"')
RECURSIVE EscapeQuotes(_)
EscapeQuotes(s) ==
    IF s = Empty THEN Empty
    ELSE (IF Head(s) = Quote THEN <<Backtick, Quote>> ELSE <<Head(s)>>)
         \o EscapeQuotes(Tail(s))

BatHeader == <<"@", "e", "c", "h", "o", " ", "o", "f", "f", "\n">>

batContent_ArgsFirst(resolvedExePath, defaultArgs) ==
    BatHeader \o <<Quote>> \o EscapeQuotes(defaultArgs) \o <<Quote, " ", Quote>>
              \o EscapeQuotes(resolvedExePath) \o <<Quote, " ", "%", "*">>

\* the text of a shim; defaultArgs is empty when --args= is not given
batContent(resolvedExePath, defaultArgs) ==
    LET escapedExe == EscapeQuotes(resolvedExePath)
        escapedArgs == IF defaultArgs # Empty THEN EscapeQuotes(defaultArgs) ELSE Empty
    IN  IF defaultArgs # Empty
        THEN BatHeader \o <<Quote>> \o escapedExe \o <<Quote, " ">>
                       \o escapedArgs \o <<" ", "%", "*">>
        ELSE BatHeader \o <<Quote>> \o escapedExe \o <<Quote, " ", "%", "*">>

Unknown == <<"u", "n", "k", "n", "o", "w", "n">>

\* content.match(/"([^"]+)"/): the first quoted, non-empty run without a
\* quote in it, or "unknown"
MatchTarget(content) ==
    LET closes(i) == { j \in (i + 1)..Len(content) : content[j] = Quote }
        next(i) == CHOOSE j \in closes(i) : \A k \in closes(i) : j <= k
        opens == { i \in 1..Len(content) :
                     /\ content[i] = Quote
                     /\ closes(i) # {}
                     /\ next(i) > i + 1 }
        first == CHOOSE i \in opens : \A k \in opens : i <= k
    IN  IF opens = {} THEN Unknown
        ELSE SubSeq(content, first + 1, next(first) - 1)

IsSep(c) == c \in {"\\", "/"}

\* path.isAbsolute(p) on Windows: a leading separator, or a drive and one
isAbsolute(p) ==
    \/ Len(p) >= 1 /\ IsSep(p[1])
    \/ Len(p) >= 3 /\ p[1] \in Letters /\ p[2] = ":" /\ IsSep(p[3])

\* path.resolve(dir, p) for a relative p of plain segments
resolve(dir, p) == PathJoin(dir, p)

LastSep(p) ==
    LET ks == { k \in 1..Len(p) : IsSep(p[k]) }
    IN  IF ks = {} THEN 0 ELSE CHOOSE k \in ks : \A j \in ks : j <= k

dirname_Root(p) == IF Len(p) = 0 THEN <<".">> ELSE <<p[1]>>

\* path.dirname(p)
dirname(p) ==
    LET k == LastSep(p)
    IN  IF k = 0 THEN <<".">> ELSE IF k = 1 THEN <<p[1]>> ELSE SubSeq(p, 1, k - 1)

\* path.basename(p)
basename(p) == SubSeq(p, LastSep(p) + 1, Len(p))

existsSync_Always(f, p) == TRUE

\* fs.existsSync(p)
existsSync(f, p) == p \in f.dirs \/ p \in DOMAIN f.files

\* fs.mkdirSync(dir, {recursive: true})
mkdirSync(f, dir) == [f EXCEPT !.dirs = @ \cup {dir}]

\* fs.writeFileSync(p, content)
writeFileSync(f, p, content) ==
    [f EXCEPT !.files = [q \in DOMAIN f.files \cup {p} |->
                            IF q = p THEN content ELSE f.files[q]]]

unlinkSync_Keep(f, p) == f

unlinkSync_Dir(f, p) ==
    [f EXCEPT !.files = [q \in { x \in DOMAIN f.files : dirname(x) # dirname(p) }
                            |-> f.files[q]]]

\* fs.unlinkSync(p)
unlinkSync(f, p) ==
    [f EXCEPT !.files = [q \in DOMAIN f.files \ {p} |-> f.files[q]]]

\* fs.readdirSync(dir): the names of the files of the directory
readdirSync(f, dir) ==
    { basename(p) : p \in { q \in DOMAIN f.files : dirname(q) = dir } }

\* the segments of a path, between its separators
RECURSIVE Segments(_)
Segments(p) ==
    IF \E i \in 1..Len(p) : IsSep(p[i])
    THEN LET k == CHOOSE i \in 1..Len(p) :
                      IsSep(p[i]) /\ \A j \in 1..(i - 1) : ~IsSep(p[j])
         IN  <<SubSeq(p, 1, k - 1)>> \o Segments(SubSeq(p, k + 1, Len(p)))
    ELSE <<p>>

DotDot == <<".", ".">>

\* a ".." segment takes away the segment before it
RECURSIVE ResolveDots(_, _)
ResolveDots(done, rest) ==
    IF rest = <<>> THEN done
    ELSE IF Head(rest) = DotDot /\ done # <<>>
    THEN ResolveDots(SubSeq(done, 1, Len(done) - 1), Tail(rest))
    ELSE ResolveDots(Append(done, Head(rest)), Tail(rest))

RECURSIVE JoinSegments(_)
JoinSegments(l) ==
    IF l = <<>> THEN Empty
    ELSE IF Len(l) = 1 THEN l[1]
    ELSE l[1] \o <<"\\">> \o JoinSegments(Tail(l))

\* path.normalize, which path.join applies to its result: the ".." segments
\* are resolved (a path without them is left as it is)
normalize(p) ==
    IF ~IsSubstring(DotDot, p) THEN p
    ELSE JoinSegments(ResolveDots(<<>>, Segments(p)))

\* path.join(aliasDir, aliasName + ".bat")
ShimPath(aliasName) == normalize(PathJoin(aliasDir, aliasName \o BatSuffix))

\* a helper that was not called
NoChange(path) == [path |-> path, writes |-> <<>>, ret |-> 0]

\* getPath() when User PATH = path
getPath(path) == IF Spawns THEN Trim(path) ELSE Empty

\* ensureAliasDirInPath(userProfile, aliasDir) on User PATH = path
ensureAliasDirInPath(path) ==
    IF IsSubstring(aliasDir, getPath(path)) THEN NoChange(path)
    ELSE IF ~Spawns THEN NotSpawned(path, 1)
    ELSE LET r == PS_addToPath(path, aliasDir)
         IN  [path |-> r.path, writes |-> r.writes, ret |-> r.code]

\* the outcome of an alias command: User PATH, the values written to it, the
\* file system, what was printed, the exit code
Outcome(path, writes, f, out, exit) ==
    [path |-> path, writes |-> writes, fs |-> f, out |-> out, exit |-> exit]

handleCreateAlias_PathFirst(path, f, aliasName, targetExe, defaultArgs, shouldAddToPath) ==
    LET resolvedExePath == IF isAbsolute(targetExe) THEN targetExe
                           ELSE resolve(cwd, targetExe)
        f1 == IF existsSync(f, aliasDir) THEN f ELSE mkdirSync(f, aliasDir)
        aliasPath == ShimPath(aliasName)
        r1 == IF shouldAddToPath THEN addDirToPath(path, dirname(resolvedExePath))
              ELSE NoChange(path)
        f2 == writeFileSync(f1, aliasPath, batContent(resolvedExePath, defaultArgs))
        r2 == ensureAliasDirInPath(r1.path)
    IN  IF ~existsSync(f, resolvedExePath)
        THEN Outcome(path, <<>>, f, <<"File not found">>, 1)
        ELSE IF existsSync(f1, aliasPath)
        THEN Outcome(r1.path, r1.writes, f1, <<"Alias already exists">>, 1)
        ELSE Outcome(r2.path, r1.writes \o r2.writes, f2, <<"Created alias">>, 0)

\* handleCreateAlias(aliasName, targetExe, defaultArgs, addToPath)
handleCreateAlias(path, f, aliasName, targetExe, defaultArgs, shouldAddToPath) ==
    LET resolvedExePath == IF isAbsolute(targetExe) THEN targetExe
                           ELSE resolve(cwd, targetExe)
        f1 == IF existsSync(f, aliasDir) THEN f ELSE mkdirSync(f, aliasDir)
        aliasPath == ShimPath(aliasName)
        r1 == IF shouldAddToPath THEN addDirToPath(path, dirname(resolvedExePath))
              ELSE NoChange(path)
        f2 == writeFileSync(f1, aliasPath, batContent(resolvedExePath, defaultArgs))
        r2 == ensureAliasDirInPath(r1.path)
        r3 == IF ~IsSubstring(aliasDir, getPath(r2.path))
              THEN addDirToPath(r2.path, aliasDir)
              ELSE NoChange(r2.path)
    IN  IF ~existsSync(f, resolvedExePath)
        THEN Outcome(path, <<>>, f, <<"File not found">>, 1)
        ELSE IF existsSync(f1, aliasPath)
        THEN Outcome(path, <<>>, f1, <<"Alias already exists">>, 1)
        ELSE Outcome(r3.path, r1.writes \o r2.writes \o r3.writes, f2,
                     <<"Created alias">>, 0)

\* handleAlias without --remove and --list; an argument that was not given
\* is empty
handleAlias(path, f, aliasName, targetExe, withArgs, shouldAddToPath) ==
    IF aliasName = Empty \/ targetExe = Empty
    THEN Outcome(path, <<>>, f, <<"Missing alias name or executable path">>, 1)
    ELSE IF ~aliasRegexTest(aliasName)
    THEN Outcome(path, <<>>, f, <<"Invalid alias name">>, 1)
    ELSE handleCreateAlias(path, f, aliasName, targetExe, withArgs, shouldAddToPath)

\* handleRemoveAlias reporting success for a shim that is not there
handleRemoveAlias_Silent(path, f, aliasName) ==
    LET aliasPath == ShimPath(aliasName)
    IN  Outcome(path, <<>>, unlinkSync(f, aliasPath), <<"Removed alias">>, 0)

\* handleRemoveAlias(aliasName)
handleRemoveAlias(path, f, aliasName) ==
    LET aliasPath == ShimPath(aliasName)
    IN  IF ~existsSync(f, aliasPath)
        THEN Outcome(path, <<>>, f, <<"Alias does not exist">>, 1)
        ELSE Outcome(path, <<>>, unlinkSync(f, aliasPath), <<"Removed alias">>, 0)

\* handleListAliases(): the lines it prints, as pairs of name and target
handleListAliases(f) ==
    LET files == IF existsSync(f, aliasDir)
                 THEN { file \in readdirSync(f, aliasDir) : EndsWith(file, BatSuffix) }
                 ELSE {}
    IN  { [name |-> ReplaceFirst(file, BatSuffix, Empty),
           target |-> MatchTarget(f.files[PathJoin(aliasDir, file)])] :
          file \in files }

----------------------------------------------------------------------------
(* Variables other than PATH: expose add VAR=value, expose add --delete VAR *)

\* the string PowerShell reads from the text between two double quotes: a
\* backtick is dropped and the character after it is taken as it stands
\* (the texts here hold neither "$" nor a letter that a backtick gives a
\* meaning to)
PSDoubleQuoted(s) ==
    LET RECURSIVE rd(_)
        rd(t) == IF t = Empty THEN Empty
                 ELSE IF Head(t) = Backtick
                 THEN IF Len(t) = 1 THEN Empty
                      ELSE <<t[2]>> \o rd(Tail(Tail(t)))
                 ELSE <<Head(t)>> \o rd(Tail(t))
    IN  rd(s)

\* the one-statement script of handleSetMode and handleDeleteMode on a store
\* holding old: a statement that throws is the last one, so the exit code is 1
PS_setVariable(old, value, can) ==
    LET set == SetEnvironmentVariable(old, value, can)
    IN  [path |-> set.path, writes |-> <<value>>,
         code |-> IF can THEN 0 ELSE 1, stdout |-> {}, stderr |-> set.err]

\* handleSetMode(name, value, isSystem) on the stored value old of the variable
handleSetMode(old, value, can) ==
    LET escapedValue == EscapeQuotes(value)
        r == IF Spawns THEN PS_setVariable(old, PSDoubleQuoted(escapedValue), can)
             ELSE NotStarted(old)
        e == execPowerShell(r)
    IN  [path |-> r.path, writes |-> r.writes,
         out |-> e.out \o (IF e.code = 0 THEN <<"Successfully set">>
                           ELSE <<"Failed to set environment variable">>),
         exit |-> IF e.code = 0 THEN 0 ELSE 1]

\* handleDeleteMode(name, isSystem) on the stored value old of the variable
handleDeleteMode(old, can) ==
    LET r == IF Spawns THEN PS_setVariable(old, PSNull, can) ELSE NotStarted(old)
        e == execPowerShell(r)
    IN  [path |-> r.path, writes |-> r.writes,
         out |-> e.out \o (IF e.code = 0 THEN <<"Successfully deleted">>
                           ELSE <<"Failed to delete environment variable">>),
         exit |-> IF e.code = 0 THEN 0 ELSE 1]

\* /^[a-zA-Z_][a-zA-Z0-9_]*$/.test(name)
varNameRegexTest(name) ==
    /\ name # Empty
    /\ name[1] \in Letters \cup {"_"}
    /\ \A i \in 2..Len(name) : name[i] \in Letters \cup Digits \cup {"_"}

\* const [name, ...valueParts] = targetArg.split("="); valueParts.join("=")
SplitAssignment(targetArg) ==
    LET k == IndexOf(targetArg, <<"=">>)
    IN  [name |-> SubSeq(targetArg, 1, k - 1),
         value |-> SubSeq(targetArg, k + 1, Len(targetArg))]

----------------------------------------------------------------------------
(* Inputs *)

Scopes == {"User", "Machine"}

\* the key of the store under which variable V of a scope is kept; PATH of
\* a scope is kept under the name of the scope
VarKey(scope) == IF scope = "User" THEN "User.V" ELSE "Machine.V"

StoreKeys == Scopes \cup { VarKey(s) : s \in Scopes }

\* the store with User PATH = u, Machine PATH = m and V unset
Store(u, m) ==
    [k \in StoreKeys |-> IF k = "User" THEN u ELSE IF k = "Machine" THEN m ELSE Empty]

\* directories given on the command line; a directory is one entry of a
\* PathList, so it holds no ';'
Dirs ==
    { <<"a">>, <<"a", "\\">>, <<"A", "/">>, <<"c">> }

\* values User PATH may hold before the tool runs: missing, one entry, an
\* entry in capitals, an entry with a trailing separator, several entries,
\* a repeated entry, an empty entry, the directories of the tool
InitPaths ==
    { Empty,
      <<"a">>,
      <<"A">>,
      <<"a", "\\">>,
      <<"b">>,
      <<"a", ";", "b">>,
      <<"b", ";", "a">>,
      <<"a", ";", "a">>,
      <<"b", ";">>,
      aliasDir,
      Lower(aliasDir) \o <<";", "b">>,
      <<"b", ";">> \o bunBinDir \o <<";">> \o aliasDir \o <<";", "a">>,
      <<"H", "\\", "L">>,
      aliasDir \o <<"2">> }

InitMachinePaths == { <<"b">> }

\* the record of a command: what was asked, the store before it, what it
\* wrote, what its helpers returned, what it printed, how it exited
Record(cmd, dir, flags, pre, writes, rets, out, exit) ==
    [cmd |-> cmd, dir |-> dir, flags |-> flags, pre |-> pre,
     writes |-> writes, rets |-> rets, out |-> out, exit |-> exit]

NoFlags == [prepend |-> FALSE, system |-> FALSE]

\* no script is between its read and its write
NoScript == [kind |-> "none"]

\* the one executable on disk, in the directory the commands are run from
TargetExe == PathJoin(cwd, <<"e">>)

\* a second executable, with a space in its name
OtherExe == PathJoin(cwd, <<"p", " ", "q">>)

ExeContent == <<"M", "Z">>

\* the files on disk before the tool runs
\* a batch file of the user, next to the alias directory
OutsideBat == PathJoin(userProfile, <<"x">> \o BatSuffix)

InitFiles ==
    (TargetExe :> ExeContent) @@ (OtherExe :> ExeContent)
        @@ (OutsideBat :> BatHeader)

\* the directories on disk before the tool runs, ~/.bun/bin aside
InitDirs == {userProfile, cwd}

Tag(scope, values) == [i \in 1..Len(values) |-> [scope |-> scope, value |-> values[i]]]

----------------------------------------------------------------------------
(* The commands *)

Init ==
    /\ \E u \in InitPaths, m \in InitMachinePaths :
           env = Store(u, m)
    /\ elevated \in BOOLEAN
    /\ fault = "none"
    /\ inflight = NoScript
    /\ bunExists \in BOOLEAN
    /\ fs = [dirs |-> InitDirs, files |-> InitFiles]
    /\ fsPre = fs
    /\ live = {}
    /\ last = Record("none", Empty, NoFlags, env, <<>>, <<>>, <<>>, 0)
    /\ prev = last
    /\ n = 0

\* uninstall printed its list and waits for the answer to "Continue? (y/N)"
Asking == last.cmd = "uninstall prompt"

\* expose add --path p [--prepend] [--system]   (handleAdd, handlePathMode);
\* p is a non-empty argument, so handleAdd passes it on
AddPath(p, prepend, isSystem) ==
    LET target == IF isSystem THEN "Machine" ELSE "User"
        can == CanWrite(target)
        r == handlePathMode(env[target], p, prepend, can)
    IN  /\ ~Asking
        /\ n < MaxCmds
        /\ n' = n + 1
        /\ prev' = last
        /\ env' = [env EXCEPT ![target] = r.path]
        /\ last' = Record("add --path", p,
                          [prepend |-> prepend, system |-> isSystem], env,
                          Tag(target, r.writes), <<>>, r.out, r.exit)
        /\ fsPre' = fs
        /\ UNCHANGED <<elevated, fault, inflight, bunExists, fs, live>>

PathName == <<"P", "A", "T", "H">>

\* the place in the store of the variable a name stands for: the variables
\* named on the command lines are PATH and one other
StoreKey(name, target) == IF name = PathName THEN target ELSE VarKey(target)

\* expose add VAR=value [--system]   (handleAdd 142-164, handleSetMode)
SetVar(targetArg, isSystem) ==
    LET target == IF isSystem THEN "Machine" ELSE "User"
        a == SplitAssignment(targetArg)
        bad == IF ~IsSubstring(<<"=">>, targetArg) THEN "Invalid argument format"
               ELSE IF a.name = Empty THEN "Variable name cannot be empty"
               ELSE IF ~varNameRegexTest(a.name) THEN "Invalid variable name"
               ELSE "none"
        key == StoreKey(a.name, target)
        r == handleSetMode(env[key], a.value, CanWrite(target))
    IN  /\ ~Asking
        /\ n < MaxCmds
        /\ n' = n + 1
        /\ prev' = last
        /\ env' = IF bad = "none" THEN [env EXCEPT ![key] = r.path] ELSE env
        /\ last' = IF bad = "none"
                   THEN Record("add", targetArg,
                               [prepend |-> FALSE, system |-> isSystem], env,
                               Tag(target, r.writes), <<>>, r.out, r.exit)
                   ELSE Record("add", targetArg,
                               [prepend |-> FALSE, system |-> isSystem], env,
                               <<>>, <<>>, <<bad>>, 1)
        /\ fsPre' = fs
        /\ UNCHANGED <<elevated, fault, inflight, bunExists, fs, live>>

\* expose add --delete VAR [--system]   (handleAdd 132-140, handleDeleteMode);
\* an empty name stands for the missing argument
DeleteVar(name, isSystem) ==
    LET target == IF isSystem THEN "Machine" ELSE "User"
        key == StoreKey(name, target)
        r == handleDeleteMode(env[key], CanWrite(target))
    IN  /\ ~Asking
        /\ n < MaxCmds
        /\ n' = n + 1
        /\ prev' = last
        /\ env' = IF name # Empty THEN [env EXCEPT ![key] = r.path] ELSE env
        /\ last' = IF name # Empty
                   THEN Record("add --delete", name,
                               [prepend |-> FALSE, system |-> isSystem], env,
                               Tag(target, r.writes), <<>>, r.out, r.exit)
                   ELSE Record("add --delete", name,
                               [prepend |-> FALSE, system |-> isSystem], env,
                               <<>>, <<>>, <<"Missing variable name">>, 1)
        /\ fsPre' = fs
        /\ UNCHANGED <<elevated, fault, inflight, bunExists, fs, live>>

\* expose init [--dir customDir]   (handleInit); customDir empty = not given
HandleInit(customDir) ==
    LET exposeDir == IF customDir # Empty THEN customDir ELSE execDir
        r1 == addDirToPath(env["User"], exposeDir)
        paths == Split(getUserPath(r1.path))
        addBun == ~Includes(paths, bunBinDir) /\ bunExists
        r2 == IF addBun THEN addToPath(r1.path, bunBinDir)
              ELSE [path |-> r1.path, writes |-> <<>>, ret |-> 0]
        addAlias == ~Includes(paths, aliasDir)
        r3 == IF addAlias THEN addToPath(r2.path, aliasDir)
              ELSE [path |-> r2.path, writes |-> <<>>, ret |-> 0]
        modified == addBun \/ addAlias
    IN  /\ ~Asking
        /\ n < MaxCmds
        /\ n' = n + 1
        /\ prev' = last
        /\ env' = [env EXCEPT !["User"] = r3.path]
        /\ last' = Record("init", customDir, NoFlags, env,
                          Tag("User", r1.writes \o r2.writes \o r3.writes),
                          <<r1.ret>> \o (IF addBun THEN <<r2.ret>> ELSE <<>>)
                                     \o (IF addAlias THEN <<r3.ret>> ELSE <<>>),
                          <<IF modified THEN "Initialization complete!"
                            ELSE "Already configured!">>, 0)
        /\ fsPre' = fs
        /\ UNCHANGED <<elevated, fault, inflight, bunExists, fs, live>>

\* expose uninstall up to its question: it prints the two directories and
\* asks "Continue? (y/N)"   (handleUninstall, 421-445)
UninstallPrompt ==
    /\ ~Asking
    /\ n < MaxCmds
    /\ prev' = last
    /\ last' = Record("uninstall prompt", Empty, NoFlags, env, <<>>, <<>>,
                      <<bunBinDir, aliasDir, "Continue? (y/N): ">>, 0)
    /\ fsPre' = fs
    /\ UNCHANGED <<env, elevated, fault, inflight, bunExists, fs, live, n>>

ConfirmedAlways(answer) == TRUE

\* answer.toLowerCase() !== "y" is false
Confirmed(answer) == Lower(answer) = <<"y">>

HandleUninstall_DeletesShims(answer) ==
    LET r1 == removeFromPath(env["User"], bunBinDir)
        r2 == removeFromPath(r1.path, aliasDir)
    IN  /\ Asking
        /\ n' = n + 1
        /\ env' = [env EXCEPT !["User"] = r2.path]
        /\ fs' = [dirs |-> InitDirs, files |-> InitFiles]
        /\ last' = Record("uninstall", answer, NoFlags, last.pre,
                          Tag("User", r1.writes \o r2.writes),
                          <<r1.ret, r2.ret>>, <<"entries removed", 2>>, 0)
        /\ UNCHANGED <<elevated, fault, inflight, bunExists, fsPre, live, prev>>

\* expose uninstall from the answer on   (handleUninstall, 447-480)
HandleUninstall(answer) ==
    LET r1 == removeFromPath(env["User"], bunBinDir)
        r2 == removeFromPath(r1.path, aliasDir)
        removedCount == (IF r1.ret THEN 1 ELSE 0) + (IF r2.ret THEN 1 ELSE 0)
    IN  /\ Asking
        /\ n' = n + 1
        /\ IF ~Confirmed(answer)
           THEN /\ env' = env
                /\ last' = Record("uninstall", answer, NoFlags, last.pre, <<>>,
                                  <<>>, <<"Uninstall cancelled.">>, 0)
           ELSE /\ env' = [env EXCEPT !["User"] = r2.path]
                /\ last' = Record("uninstall", answer, NoFlags, last.pre,
                                  Tag("User", r1.writes \o r2.writes),
                                  <<r1.ret, r2.ret>>,
                                  <<IF removedCount > 0
                                    THEN "entries removed" ELSE "Nothing to remove.",
                                    removedCount>>, 0)
        /\ UNCHANGED <<elevated, fault, inflight, bunExists, fs, fsPre, live, prev>>

\* what the user may type at the prompt; the empty answer is the Enter key
Answers == {<<"Y">>, <<"n">>, Empty, <<"y", "e", "s">>}

Next ==
    \/ \E p \in Dirs, prepend \in BOOLEAN, isSystem \in BOOLEAN :
           AddPath(p, prepend, isSystem)
    \/ \E customDir \in Dirs \cup {Empty} : HandleInit(customDir)
    \/ UninstallPrompt
    \/ \E answer \in Answers : HandleUninstall(answer)

Spec == Init /\ [][Next]_vars

----------------------------------------------------------------------------
(* The PATH operations called one by one: handlePathMode through           *)
(* add --path, and the helpers addDirToPath, addToPath and removeFromPath  *)
(* with any directory.                                                     *)

Call(name, dir, r) ==
    /\ ~Asking
    /\ n < MaxCmds
    /\ n' = n + 1
    /\ prev' = last
    /\ env' = [env EXCEPT !["User"] = r.path]
    /\ last' = Record(name, dir, NoFlags, env, Tag("User", r.writes),
                      <<r.ret>>, <<>>, 0)
    /\ fsPre' = fs
    /\ UNCHANGED <<elevated, fault, inflight, bunExists, fs, live>>

CallAddDirToPath(dir) == Call("addDirToPath", dir, addDirToPath(env["User"], dir))

CallAddToPath(dir) == Call("addToPath", dir, addToPath(env["User"], dir))

CallRemoveFromPath(dir) ==
    Call("removeFromPath", dir, removeFromPath(env["User"], dir))

NextPathStore ==
    \/ \E p \in Dirs, prepend \in BOOLEAN, isSystem \in BOOLEAN :
           AddPath(p, prepend, isSystem)
    \/ \E dir \in Dirs : CallAddDirToPath(dir)
    \/ \E dir \in Dirs : CallAddToPath(dir)
    \/ \E dir \in Dirs : CallRemoveFromPath(dir)

SpecPathStore == Init /\ [][NextPathStore]_vars

----------------------------------------------------------------------------
(* The alias commands, with uninstall *)

MaxAliasCmds == 3

\* the words of the command line that handleAlias looks for
DashDash == <<"-", "-">>

DashPath == DashDash \o <<"p", "a", "t", "h">>

DashArgs == DashDash \o <<"a", "r", "g", "s">>

DashArgsEq == DashArgs \o <<"=">>

\* s.startsWith(t)
StartsWith(s, t) == Len(s) >= Len(t) /\ SubSeq(s, 1, Len(t)) = t

\* list[i] of JavaScript counted from 1: undefined, here empty, past the end
At(l, i) == IF i <= Len(l) THEN l[i] ELSE Empty

\* the options and positional arguments handleAlias reads from its
\* arguments; withArgs is empty when no argument starts with --args=
ParseArgs(aliasArgs) ==
    LET withEq == SelectSeq(aliasArgs, LAMBDA a : StartsWith(a, DashArgsEq))
        cleanArgs == SelectSeq(aliasArgs, LAMBDA a : ~StartsWith(a, DashDash))
    IN  [shouldAddToPath |-> Includes(aliasArgs, DashPath),
         withArgs |-> IF withEq = <<>> THEN Empty
                      ELSE ReplaceFirst(withEq[1], DashArgsEq, Empty),
         aliasName |-> At(cleanArgs, 1),
         targetExe |-> At(cleanArgs, 2)]

AliasFlags(targetExe, withArgs, shouldAddToPath, aliasArgs) ==
    [prepend |-> FALSE, system |-> FALSE,
     exe |-> targetExe, args |-> withArgs, path |-> shouldAddToPath,
     argv |-> aliasArgs]

\* expose alias <aliasArgs>, neither --remove nor --list among them
AliasCreate(aliasArgs) ==
    LET a == ParseArgs(aliasArgs)
        r == handleAlias(env["User"], fs, a.aliasName, a.targetExe, a.withArgs,
                         a.shouldAddToPath)
    IN  /\ ~Asking
        /\ n < MaxAliasCmds
        /\ n' = n + 1
        /\ prev' = last
        /\ env' = [env EXCEPT !["User"] = r.path]
        /\ fs' = r.fs
        /\ fsPre' = fs
        /\ live' = IF r.exit = 0 THEN live \cup {a.aliasName} ELSE live
        /\ last' = Record("alias", a.aliasName,
                          AliasFlags(a.targetExe, a.withArgs, a.shouldAddToPath,
                                     aliasArgs), env,
                          Tag("User", r.writes), <<>>, r.out, r.exit)
        /\ UNCHANGED <<elevated, fault, inflight, bunExists>>

\* expose alias --remove aliasName
AliasRemove(aliasName) ==
    LET r == handleRemoveAlias(env["User"], fs, aliasName)
    IN  /\ ~Asking
        /\ n < MaxAliasCmds
        /\ n' = n + 1
        /\ prev' = last
        /\ fs' = r.fs
        /\ fsPre' = fs
        /\ live' = IF r.exit = 0 THEN live \ {aliasName} ELSE live
        /\ last' = Record("alias --remove", aliasName, NoFlags, env, <<>>, <<>>,
                          r.out, r.exit)
        /\ UNCHANGED <<env, elevated, fault, inflight, bunExists>>

\* alias --list making the alias directory when it is missing
AliasList_Mkdir ==
    LET rows == handleListAliases(fs)
    IN  /\ ~Asking
        /\ n < MaxAliasCmds
        /\ n' = n + 1
        /\ prev' = last
        /\ fsPre' = fs
        /\ fs' = IF existsSync(fs, aliasDir) THEN fs ELSE mkdirSync(fs, aliasDir)
        /\ last' = Record("alias --list", Empty, NoFlags, env, <<>>, <<rows>>,
                          <<IF rows = {} THEN "No aliases found"
                            ELSE "Configured Aliases">>, 0)
        /\ UNCHANGED <<env, elevated, fault, inflight, bunExists, live>>

\* expose alias --list
AliasList ==
    LET rows == handleListAliases(fs)
    IN  /\ ~Asking
        /\ n < MaxAliasCmds
        /\ n' = n + 1
        /\ prev' = last
        /\ fsPre' = fs
        /\ last' = Record("alias --list", Empty, NoFlags, env, <<>>, <<rows>>,
                          <<IF rows = {} THEN "No aliases found"
                            ELSE "Configured Aliases">>, 0)
        /\ UNCHANGED <<env, elevated, fault, inflight, bunExists, fs, live>>

\* the argument given to --args=: none, or -p "x"
ArgsGiven == <<"-", "p", " ", Quote, "x", Quote>>

\* an executable that is not on disk, and a name no file can have
MissingExe == PathJoin(cwd, <<"m">>)

QuotedExe == PathJoin(cwd, <<"e", Quote, "e">>)

\* the default arguments of the documented example, -p 3
ArgsDoc == <<"-", "p", " ", "3">>

\* expose alias name exe [--args=args] [--path]
CommandLine(name, exe, args, path) ==
    <<name, exe>> \o (IF args # Empty THEN <<DashArgsEq \o args>> ELSE <<>>)
                  \o (IF path THEN <<DashPath>> ELSE <<>>)

\* the command lines of alias creation
CreateInputs ==
    { CommandLine(<<"a">>, TargetExe, Empty, FALSE),
      CommandLine(<<"a">>, <<"e">>, ArgsGiven, TRUE),
      CommandLine(<<"a">>, MissingExe, Empty, TRUE),
      CommandLine(<<"a">>, QuotedExe, Empty, FALSE),
      CommandLine(<<"a", ".", "b", "a", "t", "b">>, TargetExe, Empty, FALSE),
      CommandLine(<<"g", "_", "n", "-", "1", ".", "x">>, OtherExe, ArgsGiven, FALSE),
      CommandLine(<<"1", "b">>, TargetExe, Empty, TRUE),
      CommandLine(<<"b", " ", "n">>, TargetExe, Empty, TRUE),
      CommandLine(<<"b", "/", "n">>, TargetExe, Empty, TRUE),
      <<<<"s">>, TargetExe, DashArgs, ArgsDoc>>,
      <<<<"e">>>> }

\* the names given to alias --remove
\* a name that leads out of the alias directory
UpName == <<".", ".", "\\", "x">>

RemoveInputs == { <<"a">>, <<"a", ".", "b", "a", "t", "b">>, <<"c">>, UpName }

\* values User PATH may hold before an alias command
AliasInitPaths == { Empty, <<"b">>, aliasDir, aliasDir \o <<"2">> }

\* no alias exists yet; the alias directory may
InitAlias ==
    /\ \E u \in AliasInitPaths, m \in InitMachinePaths :
           env = Store(u, m)
    /\ elevated = FALSE
    /\ fault = "none"
    /\ inflight = NoScript
    /\ bunExists = FALSE
    /\ \E ds \in {InitDirs, InitDirs \cup {aliasDir}} :
           fs = [dirs |-> ds, files |-> InitFiles]
    /\ fsPre = fs
    /\ live = {}
    /\ last = Record("none", Empty, NoFlags, env, <<>>, <<>>, <<>>, 0)
    /\ prev = last
    /\ n = 0

NextAlias ==
    \/ \E aliasArgs \in CreateInputs : AliasCreate(aliasArgs)
    \/ \E aliasName \in RemoveInputs : AliasRemove(aliasName)
    \/ AliasList
    \/ UninstallPrompt
    \/ \E answer \in Answers : HandleUninstall(answer)

SpecAlias == InitAlias /\ [][NextAlias]_vars

----------------------------------------------------------------------------
(* The PATH scripts step by step: the read of a script and its write are two
   steps of the helper process, and another process may write the same store
   between them *)

MaxRaceSteps == 4

\* the entries other processes add
OtherEntries == { <<"x">>, <<"y">> }

RaceDirs == { <<"a">>, <<"b">> }

\* the script a helper runs: handlePathMode's (315-329) or addDirToPath's
\* (678-688), which works on the User scope
Scripts ==
    { [kind |-> "handlePathMode", dir |-> d, prepend |-> pp, scope |-> sc] :
          d \in RaceDirs, pp \in BOOLEAN, sc \in Scopes }
    \cup { [kind |-> "addDirToPath", dir |-> d, prepend |-> FALSE, scope |-> "User"] :
               d \in RaceDirs }

\* the rest of a script after its first line, with $path = path
ScriptOn(s, path) ==
    IF s.kind = "addDirToPath" THEN PS_addToPath(path, normalizedPath(s.dir))
    ELSE PS_handlePathMode(path, normalizedPath(s.dir), s.prepend, CanWrite(s.scope))

ScriptRunning == inflight.kind # "none" /\ ~inflight.done

\* $path = [Environment]::GetEnvironmentVariable("PATH", scope)
RaceRead(s) ==
    /\ ~ScriptRunning
    /\ n < MaxRaceSteps
    /\ n' = n + 1
    /\ inflight' = [kind |-> s.kind, dir |-> s.dir, prepend |-> s.prepend,
                    scope |-> s.scope, read |-> env[s.scope], others |-> {},
                    done |-> FALSE, before |-> Empty, after |-> Empty,
                    writes |-> <<>>]
    /\ UNCHANGED <<env, elevated, fault, bunExists, fs, fsPre, live, last, prev>>

\* another process appends to PATH of a scope an entry that is not in it
ExternalWrite(scope, e) ==
    /\ ~Includes(Split(env[scope]), e)
    /\ n < MaxRaceSteps
    /\ n' = n + 1
    /\ env' = [env EXCEPT ![scope] = IF @ = Empty THEN e ELSE @ \o <<";">> \o e]
    /\ inflight' = IF ScriptRunning /\ inflight.scope = scope
                   THEN [inflight EXCEPT !.others = @ \cup {e}]
                   ELSE inflight
    /\ UNCHANGED <<elevated, fault, bunExists, fs, fsPre, live, last, prev>>

\* the write of a script that compares the store with what it read and
\* starts over from the present value when they differ
RaceWrite_CompareAndSwap ==
    LET s == inflight
        r == ScriptOn(s, IF env[s.scope] = s.read THEN s.read ELSE env[s.scope])
    IN  /\ ScriptRunning
        /\ n' = n + 1
        /\ env' = [env EXCEPT ![s.scope] = r.path]
        /\ inflight' = [s EXCEPT !.done = TRUE, !.before = env[s.scope],
                                 !.after = r.path, !.writes = r.writes]
        /\ UNCHANGED <<elevated, fault, bunExists, fs, fsPre, live, last, prev>>

\* the rest of the script: the test on $paths, then
\* [Environment]::SetEnvironmentVariable("PATH", $newPath, scope) with the
\* value built from what was read
RaceWrite ==
    LET s == inflight
        r == ScriptOn(s, s.read)
        after == IF r.writes = <<>> THEN env[s.scope] ELSE r.path
    IN  /\ ScriptRunning
        /\ n' = n + 1
        /\ env' = [env EXCEPT ![s.scope] = after]
        /\ inflight' = [s EXCEPT !.done = TRUE, !.before = env[s.scope],
                                 !.after = after, !.writes = r.writes]
        /\ UNCHANGED <<elevated, fault, bunExists, fs, fsPre, live, last, prev>>

InitRace ==
    /\ \E u \in {Empty, <<"b">>}, m \in {Empty, <<"b">>} : env = Store(u, m)
    /\ elevated = TRUE
    /\ fault = "none"
    /\ inflight = NoScript
    /\ bunExists = FALSE
    /\ fs = [dirs |-> InitDirs, files |-> InitFiles]
    /\ fsPre = fs
    /\ live = {}
    /\ last = Record("none", Empty, NoFlags, env, <<>>, <<>>, <<>>, 0)
    /\ prev = last
    /\ n = 0

NextRace ==
    \/ \E s \in Scripts : RaceRead(s)
    \/ \E scope \in Scopes, e \in OtherEntries : ExternalWrite(scope, e)
    \/ RaceWrite

SpecRace == InitRace /\ [][NextRace]_vars

----------------------------------------------------------------------------
(* One command step by step: the awaits of a handler, in the order of its
   code.  A helper that was spawned closes or fails to start in a step of its
   own, and the prompt of uninstall is answered in a step of its own.  What a
   test of the code decides is left open: a step that the code may skip may
   be skipped, a test that may end the command may end it. *)

MaxRuns == 2

\* the most files the alias directory holds when alias --list reads them
MaxFiles == 2

\* a test that ends the command with exit code failExit when it fails
CheckStep(failExit) == [op |-> "check", failExit |-> failExit, optional |-> FALSE,
                        checked |-> FALSE]

\* a file system call; optional when it sits in a branch
FsStep(optional) == [op |-> "fs", failExit |-> 1, optional |-> optional,
                     checked |-> FALSE]

\* an awaited helper; checked when the handler exits 1 on a code other than 0
SpawnStep(optional, checked) == [op |-> "spawn", failExit |-> 1,
                                 optional |-> optional, checked |-> checked]

AskStep == [op |-> "ask", failExit |-> 0, optional |-> FALSE, checked |-> FALSE]

Times(k, step) == [i \in 1..k |-> step]

RunCmds == {"add --path", "add", "add --delete", "init", "uninstall", "alias",
            "alias --remove", "alias --list", "help", "unknown"}

\* the steps of a command, in the order of its handler; files is the number
\* of shims alias --list finds
Program(cmd, files) ==
    CASE cmd = "add --path" -> <<CheckStep(1), SpawnStep(FALSE, TRUE)>>
      [] cmd = "add" -> <<CheckStep(1), CheckStep(1), CheckStep(1),
                          SpawnStep(FALSE, TRUE)>>
      [] cmd = "add --delete" -> <<CheckStep(1), SpawnStep(FALSE, TRUE)>>
      [] cmd = "init" ->
            <<SpawnStep(FALSE, FALSE), SpawnStep(FALSE, FALSE), FsStep(TRUE),
              SpawnStep(TRUE, FALSE), SpawnStep(TRUE, FALSE)>>
      [] cmd = "uninstall" ->
            <<AskStep, SpawnStep(FALSE, FALSE), SpawnStep(FALSE, FALSE)>>
      [] cmd = "alias" ->
            <<CheckStep(1), CheckStep(1), CheckStep(1), FsStep(FALSE),
              FsStep(TRUE), CheckStep(1), SpawnStep(TRUE, FALSE), FsStep(FALSE),
              SpawnStep(FALSE, FALSE), SpawnStep(TRUE, FALSE),
              SpawnStep(FALSE, FALSE), SpawnStep(TRUE, FALSE)>>
      [] cmd = "alias --remove" -> <<CheckStep(1), CheckStep(1), FsStep(FALSE)>>
      [] cmd = "alias --list" ->
            <<CheckStep(0), FsStep(FALSE), CheckStep(0)>> \o Times(files, FsStep(FALSE))
      [] cmd = "help" -> <<>>
      [] cmd = "unknown" -> <<CheckStep(1)>>

CountOp(prog, op) == Cardinality({ i \in 1..Len(prog) : prog[i].op = op })

Running == inflight.kind = "command" /\ inflight.phase # "exited"

Exited == inflight.kind = "command" /\ inflight.phase = "exited"

AtStep(op) == Running /\ inflight.phase = "ready" /\ inflight.todo # <<>>
              /\ Head(inflight.todo).op = op

Advance == [inflight EXCEPT !.todo = Tail(@), !.phase = "ready"]

ExitWith(code) == [inflight EXCEPT !.phase = "exited", !.exit = code]

RunFrame == UNCHANGED <<env, elevated, fault, bunExists, fs, fsPre, live, last, prev>>

\* the switch on the subcommand (32-54)
Dispatch(cmd, files) ==
    /\ ~Running
    /\ n < MaxRuns
    /\ n' = n + 1
    /\ inflight' = [kind |-> "command", cmd |-> cmd, prog |-> Program(cmd, files),
                    todo |-> Program(cmd, files), phase |-> "ready",
                    calls |-> 0, ops |-> 0, exit |-> -1]
    /\ RunFrame

\* a test of the handler that lets the command go on
CheckPasses ==
    /\ AtStep("check")
    /\ inflight' = Advance
    /\ UNCHANGED n /\ RunFrame

\* a test of the handler that ends the command: process.exit(1), or the
\* return of handleListAliases
CheckFails ==
    /\ AtStep("check")
    /\ inflight' = ExitWith(Head(inflight.todo).failExit)
    /\ UNCHANGED n /\ RunFrame

\* a synchronous file system call that returns
FsOp ==
    /\ AtStep("fs")
    /\ inflight' = [Advance EXCEPT !.ops = @ + 1]
    /\ UNCHANGED n /\ RunFrame

\* a synchronous file system call that throws: nothing catches it and the
\* runtime ends the process with code 1
FsThrows ==
    /\ AtStep("fs")
    /\ ~Head(inflight.todo).optional
    /\ inflight' = [ExitWith(1) EXCEPT !.ops = @ + 1]
    /\ UNCHANGED n /\ RunFrame

\* a branch of the handler that is not taken
Skip ==
    /\ Running /\ inflight.phase = "ready" /\ inflight.todo # <<>>
    /\ Head(inflight.todo).optional
    /\ inflight' = Advance
    /\ UNCHANGED n /\ RunFrame

\* spawn("powershell", ...) inside an awaited promise
Spawn ==
    /\ AtStep("spawn")
    /\ inflight' = [inflight EXCEPT !.phase = "waiting"]
    /\ UNCHANGED n /\ RunFrame

\* the helper closing with a code that sends the handler back to the spawn
HelperCloses_Respawn(code) ==
    /\ Running /\ inflight.phase = "waiting"
    /\ inflight' = IF code # 0
                   THEN [inflight EXCEPT !.phase = "ready"]
                   ELSE [Advance EXCEPT !.calls = @ + 1]
    /\ UNCHANGED n /\ RunFrame

\* child.on("close", code): the promise resolves; handlePathMode,
\* handleSetMode and handleDeleteMode exit 1 on a code other than 0
HelperCloses(code) ==
    /\ Running /\ inflight.phase = "waiting"
    /\ inflight' = IF code # 0 /\ Head(inflight.todo).checked
                   THEN [ExitWith(1) EXCEPT !.calls = @ + 1]
                   ELSE [Advance EXCEPT !.calls = @ + 1]
    /\ UNCHANGED n /\ RunFrame

\* child.on("error"): the promise resolves 1, "" or false
HelperFailsToSpawn ==
    /\ Running /\ inflight.phase = "waiting"
    /\ inflight' = IF Head(inflight.todo).checked
                   THEN [ExitWith(1) EXCEPT !.calls = @ + 1]
                   ELSE [Advance EXCEPT !.calls = @ + 1]
    /\ UNCHANGED n /\ RunFrame

\* rl.question("Continue? (y/N): ", ...)
Ask ==
    /\ AtStep("ask")
    /\ inflight' = [inflight EXCEPT !.phase = "asking"]
    /\ UNCHANGED n /\ RunFrame

\* the answer arrives: anything but y ends the command with code 0
Answer(answer) ==
    /\ Running /\ inflight.phase = "asking"
    /\ inflight' = IF Confirmed(answer) THEN Advance ELSE ExitWith(0)
    /\ UNCHANGED n /\ RunFrame

\* the handler returns and the process ends with code 0
Return ==
    /\ Running /\ inflight.phase = "ready" /\ inflight.todo = <<>>
    /\ inflight' = ExitWith(0)
    /\ UNCHANGED n /\ RunFrame

ProgramStep ==
    CheckPasses \/ CheckFails \/ FsOp \/ FsThrows \/ Skip \/ Spawn \/ Ask \/ Return

HelperEnds == (\E code \in {0, 1} : HelperCloses(code)) \/ HelperFailsToSpawn

Answered == \E answer \in Answers : Answer(answer)

InitRun ==
    /\ env = Store(<<"b">>, <<"b">>)
    /\ elevated = FALSE
    /\ fault = "none"
    /\ inflight = NoScript
    /\ bunExists = FALSE
    /\ fs = [dirs |-> InitDirs, files |-> InitFiles]
    /\ fsPre = fs
    /\ live = {}
    /\ last = Record("none", Empty, NoFlags, env, <<>>, <<>>, <<>>, 0)
    /\ prev = last
    /\ n = 0

NextRun ==
    \/ \E cmd \in RunCmds, files \in 0..MaxFiles : Dispatch(cmd, files)
    \/ CheckPasses
    \/ CheckFails
    \/ FsOp
    \/ FsThrows
    \/ Skip
    \/ Spawn
    \/ \E code \in {0, 1} : HelperCloses(code)
    \/ HelperFailsToSpawn
    \/ Ask
    \/ \E answer \in Answers : Answer(answer)
    \/ Return

\* the runtime runs the handler; every spawned helper closes or fails to
\* start; the prompt is answered
SpecRun ==
    /\ InitRun /\ [][NextRun]_vars
    /\ WF_vars(ProgramStep)
    /\ WF_vars(HelperEnds)
    /\ WF_vars(Answered)

----------------------------------------------------------------------------
(* Alias creations by several processes at once: each process runs
   handleAlias and handleCreateAlias statement by statement on the one disk
   and the one store *)

MaxProcs == 2

Procs == 1..MaxProcs

RaceCreateInputs ==
    { CommandLine(<<"a">>, TargetExe, Empty, FALSE),
      CommandLine(<<"a">>, OtherExe, ArgsGiven, TRUE),
      CommandLine(<<"c">>, TargetExe, Empty, FALSE),
      CommandLine(<<"a">>, MissingExe, Empty, FALSE),
      CommandLine(<<"1", "b">>, TargetExe, Empty, FALSE) }

Idle == [pc |-> "idle", aliasName |-> Empty, targetExe |-> Empty,
         withArgs |-> Empty, shouldAddToPath |-> FALSE, exit |-> -1]

Creating == inflight.kind = "creates"

At_(p, pc) == Creating /\ inflight.proc[p].pc = pc

Goto(p, pc) == [inflight EXCEPT !.proc[p].pc = pc]

Exit(p, code) == [inflight EXCEPT !.proc[p].pc = "exited", !.proc[p].exit = code]

ResolvedExe(p) ==
    LET targetExe == inflight.proc[p].targetExe
    IN  IF isAbsolute(targetExe) THEN targetExe ELSE resolve(cwd, targetExe)

\* handleAlias 218-249: the arguments are parsed and tested
StartCreate(p, aliasArgs) ==
    LET a == ParseArgs(aliasArgs)
        started == [inflight EXCEPT !.proc[p] =
                       [pc |-> "start", aliasName |-> a.aliasName,
                        targetExe |-> a.targetExe, withArgs |-> a.withArgs,
                        shouldAddToPath |-> a.shouldAddToPath, exit |-> -1]]
    IN  /\ At_(p, "idle")
        /\ inflight' = IF a.aliasName = Empty \/ a.targetExe = Empty
                          \/ ~aliasRegexTest(a.aliasName)
                       THEN [started EXCEPT !.proc[p].pc = "exited",
                                            !.proc[p].exit = 1]
                       ELSE started
        /\ UNCHANGED <<env, elevated, fault, bunExists, fs, fsPre, live, last, prev, n>>

\* 534-537: if (!fs.existsSync(resolvedExePath)) process.exit(1)
CheckTarget(p) ==
    /\ At_(p, "start")
    /\ inflight' = IF existsSync(fs, ResolvedExe(p)) THEN Goto(p, "target")
                   ELSE Exit(p, 1)
    /\ UNCHANGED <<env, elevated, fault, bunExists, fs, fsPre, live, last, prev, n>>

\* 539-542: the alias directory is made when it is missing
MakeDir(p) ==
    /\ At_(p, "target")
    /\ fs' = IF existsSync(fs, aliasDir) THEN fs ELSE mkdirSync(fs, aliasDir)
    /\ inflight' = Goto(p, "dir")
    /\ UNCHANGED <<env, elevated, fault, bunExists, fsPre, live, last, prev, n>>

\* 544-548: if (fs.existsSync(aliasPath)) process.exit(1)
CheckShim(p) ==
    /\ At_(p, "dir")
    /\ inflight' = IF existsSync(fs, ShimPath(inflight.proc[p].aliasName))
                   THEN Exit(p, 1)
                   ELSE IF inflight.proc[p].shouldAddToPath THEN Goto(p, "path")
                   ELSE Goto(p, "write")
    /\ UNCHANGED <<env, elevated, fault, bunExists, fs, fsPre, live, last, prev, n>>

\* 550-554: await addDirToPath(exeDir)
AddTargetDir(p) ==
    /\ At_(p, "path")
    /\ env' = [env EXCEPT !["User"] = addDirToPath(@, dirname(ResolvedExe(p))).path]
    /\ inflight' = Goto(p, "write")
    /\ UNCHANGED <<elevated, fault, bunExists, fs, fsPre, live, last, prev, n>>

\* 568: fs.writeFileSync(aliasPath, batContent, { encoding: "utf8" })
WriteShim(p) ==
    LET me == inflight.proc[p]
    IN  /\ At_(p, "write")
        /\ fsPre' = fs
        /\ fs' = writeFileSync(fs, ShimPath(me.aliasName),
                               batContent(ResolvedExe(p), me.withArgs))
        /\ inflight' = Goto(p, "written")
        /\ UNCHANGED <<env, elevated, fault, bunExists, live, last, prev, n>>

\* 570-586: ensureAliasDirInPath, the second test, and the return
FinishCreate(p) ==
    LET r2 == ensureAliasDirInPath(env["User"])
        r3 == IF ~IsSubstring(aliasDir, getPath(r2.path))
              THEN addDirToPath(r2.path, aliasDir)
              ELSE NoChange(r2.path)
    IN  /\ At_(p, "written")
        /\ env' = [env EXCEPT !["User"] = r3.path]
        /\ inflight' = [inflight EXCEPT !.proc[p].pc = "done", !.proc[p].exit = 0]
        /\ UNCHANGED <<elevated, fault, bunExists, fs, fsPre, live, last, prev, n>>

InitCreates ==
    /\ env = Store(<<"b">>, <<"b">>)
    /\ elevated = FALSE
    /\ fault = "none"
    /\ inflight = [kind |-> "creates", proc |-> [p \in Procs |-> Idle]]
    /\ bunExists = FALSE
    /\ \E ds \in {InitDirs, InitDirs \cup {aliasDir}} :
           fs = [dirs |-> ds, files |-> InitFiles]
    /\ fsPre = fs
    /\ live = {}
    /\ last = Record("none", Empty, NoFlags, env, <<>>, <<>>, <<>>, 0)
    /\ prev = last
    /\ n = 0

NextCreates ==
    \E p \in Procs :
        \/ \E aliasArgs \in RaceCreateInputs : StartCreate(p, aliasArgs)
        \/ CheckTarget(p)
        \/ MakeDir(p)
        \/ CheckShim(p)
        \/ AddTargetDir(p)
        \/ WriteShim(p)
        \/ FinishCreate(p)

SpecCreates == InitCreates /\ [][NextCreates]_vars

----------------------------------------------------------------------------
(* The normalisation of a directory argument on its own: a string is drawn
   and normalizedPath is applied to it, and again to what it returned *)

MaxLen == 4

MaxApply == 2

PathChars == {"a", "/", "\\"}

\* every string of at most MaxLen characters
Strings == UNION { [1..k -> PathChars] : k \in 0..MaxLen }

InitNormalize ==
    /\ env = Store(Empty, Empty)
    /\ elevated = FALSE
    /\ fault = "none"
    /\ \E str \in Strings :
           inflight = [kind |-> "normalize", input |-> str, value |-> str,
                       before |-> str, applied |-> 0]
    /\ bunExists = FALSE
    /\ fs = [dirs |-> InitDirs, files |-> InitFiles]
    /\ fsPre = fs
    /\ live = {}
    /\ last = Record("none", Empty, NoFlags, env, <<>>, <<>>, <<>>, 0)
    /\ prev = last
    /\ n = 0

\* const normalizedPath = dir.replace(/\/$/, "").replace(/\\+$/, "")
Normalize ==
    /\ inflight.kind = "normalize"
    /\ inflight.applied < MaxApply
    /\ inflight' = [inflight EXCEPT !.value = normalizedPath(@),
                                    !.before = inflight.value,
                                    !.applied = @ + 1]
    /\ UNCHANGED <<env, elevated, fault, bunExists, fs, fsPre, live, last, prev, n>>

NextNormalize == Normalize

SpecNormalize == InitNormalize /\ [][NextNormalize]_vars

----------------------------------------------------------------------------
(* The alias tool kept next to the main CLI (cli.ts 844-1160, bun env-alias):
   its creation of an alias, run from the same disk and store as the alias
   subcommand.  Its addDirToPath, getPath and ensureAliasDirInPath (1039-1160)
   are the same text as those of the main CLI. *)

\* handleCreateAlias of the alias tool (959-1023): the target is taken as it
\* was given and is not looked up on disk
legacy_handleCreateAlias(path, f, aliasName, targetExe, defaultArgs, shouldAddToPath) ==
    LET f1 == IF existsSync(f, aliasDir) THEN f ELSE mkdirSync(f, aliasDir)
        aliasPath == ShimPath(aliasName)
        r1 == IF shouldAddToPath THEN addDirToPath(path, dirname(targetExe))
              ELSE NoChange(path)
        f2 == writeFileSync(f1, aliasPath, batContent(targetExe, defaultArgs))
        r2 == ensureAliasDirInPath(r1.path)
        r3 == IF ~IsSubstring(aliasDir, getPath(r2.path))
              THEN addDirToPath(r2.path, aliasDir)
              ELSE NoChange(r2.path)
    IN  IF existsSync(f1, aliasPath)
        THEN Outcome(path, <<>>, f1, <<"Alias already exists">>, 1)
        ELSE Outcome(r3.path, r1.writes \o r2.writes \o r3.writes, f2,
                     <<"Created alias">>, 0)

\* the top level of the alias tool in creation mode (856-901)
legacy_main(path, f, aliasArgs) ==
    LET a == ParseArgs(aliasArgs)
    IN  IF a.aliasName = Empty \/ a.targetExe = Empty
        THEN Outcome(path, <<>>, f, <<"Missing alias name or executable path">>, 1)
        ELSE IF ~aliasRegexTest(a.aliasName)
        THEN Outcome(path, <<>>, f, <<"Invalid alias name">>, 1)
        ELSE legacy_handleCreateAlias(path, f, a.aliasName, a.targetExe,
                                      a.withArgs, a.shouldAddToPath)

\* one creation given to both tools from the same disk and store; the disk
\* and the store go on as the main CLI leaves them
BothCreate(aliasArgs) ==
    LET a == ParseArgs(aliasArgs)
        r == handleAlias(env["User"], fs, a.aliasName, a.targetExe, a.withArgs,
                         a.shouldAddToPath)
        l == legacy_main(env["User"], fs, aliasArgs)
    IN  /\ n < MaxCmds
        /\ n' = n + 1
        /\ prev' = last
        /\ env' = [env EXCEPT !["User"] = r.path]
        /\ fs' = r.fs
        /\ fsPre' = fs
        /\ live' = IF r.exit = 0 THEN live \cup {a.aliasName} ELSE live
        /\ last' = Record("alias", a.aliasName,
                          AliasFlags(a.targetExe, a.withArgs, a.shouldAddToPath,
                                     aliasArgs), env,
                          Tag("User", r.writes), <<>>, r.out, r.exit)
        /\ inflight' = [kind |-> "legacy", path |-> l.path, fs |-> l.fs,
                        out |-> l.out, exit |-> l.exit]
        /\ UNCHANGED <<elevated, fault, bunExists>>

NextLegacy == \E aliasArgs \in CreateInputs : BothCreate(aliasArgs)

SpecLegacy == InitAlias /\ [][NextLegacy]_vars

----------------------------------------------------------------------------
(* The commands under failing stores: every command of the tool, from every
   combination of an elevated or plain process, a User store that accepts or
   refuses writes, and a powershell that starts or does not *)

Faults == {"none", "write", "spawn"}

\* an elevated process is taken with stores and helper in working order
FaultCases ==
    { c \in [elevated : BOOLEAN, fault : Faults] : c.elevated => c.fault = "none" }

VarName == <<"V">>

\* the VAR=value arguments given
SetInputs ==
    { VarName \o <<"=", "1">>,
      VarName \o <<"=", "1", "=", Quote>>,
      PathName \o <<"=", "c">>,
      <<"=", "1">>,
      <<"1", "V", "=", "1">>,
      VarName \o <<"=", Backtick, "1">>,
      VarName }

DeleteInputs == { VarName, Empty }

StoreCreateInputs ==
    { CommandLine(<<"a">>, TargetExe, Empty, FALSE),
      CommandLine(<<"a">>, TargetExe, Empty, TRUE) }

InitStore ==
    /\ \E u \in {Empty, <<"b">>} : env = Store(u, <<"b">>)
    /\ \E c \in FaultCases : elevated = c.elevated /\ fault = c.fault
    /\ inflight = NoScript
    /\ bunExists = TRUE
    /\ fs = [files |-> InitFiles, dirs |-> InitDirs]
    /\ fsPre = fs
    /\ live = {}
    /\ last = Record("none", Empty, NoFlags, env, <<>>, <<>>, <<>>, 0)
    /\ prev = last
    /\ n = 0

NextStore ==
    \/ \E p \in {<<"a">>}, prepend \in BOOLEAN, isSystem \in BOOLEAN :
           AddPath(p, prepend, isSystem)
    \/ \E targetArg \in SetInputs, isSystem \in BOOLEAN : SetVar(targetArg, isSystem)
    \/ \E name \in DeleteInputs, isSystem \in BOOLEAN : DeleteVar(name, isSystem)
    \/ HandleInit(Empty)
    \/ \E aliasArgs \in StoreCreateInputs : AliasCreate(aliasArgs)
    \/ UninstallPrompt
    \/ \E answer \in Answers : HandleUninstall(answer)

SpecStore == InitStore /\ [][NextStore]_vars

----------------------------------------------------------------------------
(* Vocabulary of the properties *)

\* the scope a recorded command works on
Target(r) == IF r.flags.system THEN "Machine" ELSE "User"

\* the PathList of a PATH value
PathList(path) == Split(path)

\* the directory a recorded command compares with the entries of PATH
Asked(r) == IF r.cmd = "addToPath" THEN r.dir ELSE normalizedPath(r.dir)

\* d is an entry of the list, letter case aside
IsEntry(l, d) == \E i \in 1..Len(l) : Lower(l[i]) = Lower(d)

\* the entries of the list other than d
Others(l, d) == SelectSeq(l, LAMBDA e : Lower(e) # Lower(d))

IsAdd(r) == r.cmd \in {"add --path", "addDirToPath"}

\* the same operation was run twice in a row, with the same arguments
Repeated(cmd) ==
    /\ n >= 2
    /\ prev.cmd = cmd /\ last.cmd = cmd
    /\ prev.dir = last.dir /\ prev.flags = last.flags

NoOpMessage == "Path already exists in PATH, no changes made."

----------------------------------------------------------------------------
(* C1..C10: the PATH operations *)

\* C1: running add --path D twice in a row (same scope, same position)
\* leaves the PATH value that running it once leaves.
C1_AddTwiceSameAsOnce ==
    Repeated("add --path") => env = last.pre

C1_Witness ==
    /\ Repeated("add --path")
    /\ prev.pre # last.pre
    /\ env = last.pre

\* C2: add --path for a directory PATH already contains writes nothing,
\* exits 0 and reports a no-op outcome, which the outcome of a mutation
\* never is.
C2_NoOpReportedDistinctly ==
    last.cmd = "add --path" =>
        IF IsEntry(PathList(last.pre[Target(last)]), Asked(last))
        THEN /\ last.writes = <<>>
             /\ last.exit = 0
             /\ Includes(last.out, NoOpMessage)
        ELSE last.exit = 0 => ~Includes(last.out, NoOpMessage)

\* C3: when a directory is added with a trailing separator and then without
\* it (or the reverse) and the first add succeeds, the second add is a no-op
\* and the directory is an entry of PATH.
C3_TrailingSeparatorSameEntry ==
    ( /\ n >= 2
      /\ IsAdd(prev) /\ last.cmd = prev.cmd /\ last.flags = prev.flags
      /\ prev.dir # last.dir
      /\ normalizedPath(prev.dir) = normalizedPath(last.dir)
      /\ prev.exit = 0 )
    => /\ last.writes = <<>>
       /\ env = last.pre
       /\ IsEntry(PathList(env[Target(last)]), Asked(last))

\* no two entries equal once trailing '/' or '\' is stripped from both
NoDuplicates(l) ==
    \A i, j \in 1..Len(l) :
        i # j => normalizedPath(l[i]) # normalizedPath(l[j])

\* C4: after any PATH mutation performed by the tool, the PathList holds no
\* two entries that are equal once their trailing separators are stripped.
C4_NoDuplicatesAfterMutation ==
    \A s \in Scopes :
        (n >= 1 /\ env[s] # last.pre[s]) => NoDuplicates(PathList(env[s]))

\* C5: membership in PATH ignores letter case: adding a directory that an
\* entry equals up to letter case is a no-op, and after removing a directory
\* no entry equals it up to letter case.
C5_MembershipIgnoresCase ==
    /\ ( IsAdd(last) /\ IsEntry(PathList(last.pre[Target(last)]), Asked(last)) )
       => (last.writes = <<>> /\ env = last.pre)
    /\ last.cmd = "removeFromPath"
       => ~IsEntry(PathList(env["User"]), Asked(last))

C5_Witness ==
    /\ n >= 2
    /\ prev.cmd = "addDirToPath" /\ last.cmd = "removeFromPath"
    /\ prev.dir = last.dir
    /\ ~Includes(PathList(prev.pre["User"]), Asked(prev))
    /\ IsEntry(PathList(prev.pre["User"]), Asked(prev))
    /\ prev.writes = <<>>
    /\ env # last.pre
    /\ ~IsEntry(PathList(env["User"]), Asked(last))

\* C6: add --path of a directory PATH does not contain puts it last, and
\* with --prepend first: A;B becomes A;B;C, respectively C;A;B.
C6_PrependAppendOrder ==
    ( /\ last.cmd = "add --path"
      /\ ~IsEntry(PathList(last.pre[Target(last)]), Asked(last))
      /\ (Target(last) = "User" \/ elevated) )
    => LET l == PathList(env[Target(last)])
           old == last.pre[Target(last)]
       IN  /\ IF last.flags.prepend THEN l[1] = Asked(last)
              ELSE l[Len(l)] = Asked(last)
           /\ old # Empty =>
                env[Target(last)] =
                    IF last.flags.prepend THEN Asked(last) \o <<";">> \o old
                    ELSE old \o <<";">> \o Asked(last)

\* C7: an add or a remove leaves every entry other than the directory it was
\* asked about in place: same values, same relative order.
C7_OtherEntriesKept ==
    (IsAdd(last) \/ last.cmd = "removeFromPath") =>
        Others(PathList(env[Target(last)]), Asked(last))
            = Others(PathList(last.pre[Target(last)]), Asked(last))

\* C8 as stated: for every initial PathList and every directory D, add(D)
\* followed by remove(D) restores the original PathList.
C8_AddRemoveRestores ==
    ( /\ n >= 2
      /\ prev.cmd = "addDirToPath" /\ last.cmd = "removeFromPath"
      /\ prev.dir = last.dir )
    => env = prev.pre

\* C8 amended: for every initial PathList and every directory D that is not
\* already an entry of it (letter case aside), add(D) followed by remove(D)
\* restores the original PathList.
C8_AddRemoveRestoresWhenAbsent ==
    ( /\ n >= 2
      /\ prev.cmd = "addDirToPath" /\ last.cmd = "removeFromPath"
      /\ prev.dir = last.dir
      /\ ~IsEntry(PathList(prev.pre["User"]), Asked(prev)) )
    => env = prev.pre

C8_Witness ==
    /\ n >= 2
    /\ prev.cmd = "addDirToPath" /\ last.cmd = "removeFromPath"
    /\ prev.dir = last.dir
    /\ ~IsEntry(PathList(prev.pre["User"]), Asked(prev))
    /\ Len(PathList(prev.pre["User"])) >= 2
    /\ last.pre # prev.pre
    /\ env = prev.pre

BoolToInt(b) == IF b THEN 1 ELSE 0

\* C9: removeFromPath returns false and writes nothing when the directory is
\* not an entry of User PATH, and returns true after a write when it is; the
\* count uninstall reports is the number of its directories that were in
\* PATH.
C9_RemoveReportsPresence ==
    (last.cmd = "uninstall" /\ Lower(last.dir) = <<"y">>) =>
        LET before == PathList(last.pre["User"])
            hadBun == IsEntry(before, bunBinDir)
            hadAlias == IsEntry(before, aliasDir)
        IN  /\ last.rets = <<hadBun, hadAlias>>
            /\ Len(last.writes) = BoolToInt(hadBun) + BoolToInt(hadAlias)
            /\ last.out[2] = BoolToInt(hadBun) + BoolToInt(hadAlias)

\* C10: running init twice in a row with the same arguments writes nothing
\* the second time: User PATH stays what the first run left.
C10_InitTwiceSameAsOnce ==
    Repeated("init") => (last.writes = <<>> /\ env = last.pre)

C10_Witness ==
    /\ Repeated("init")
    /\ Len(prev.writes) >= 2
    /\ last.writes = <<>>
    /\ env = last.pre

----------------------------------------------------------------------------
(* C11..C14: init and uninstall *)

\* the directory init puts the tool's own executable under in PATH
ExposeDirOf(r) == normalizedPath(IF r.dir # Empty THEN r.dir ELSE execDir)

\* C11: after init the install directory (or the --dir value) and the alias
\* directory are entries of User PATH; the runtime-bin directory is an entry
\* exactly when it exists on disk or was an entry before.
C11_InitAddsItsDirectories ==
    last.cmd = "init" =>
        LET l == PathList(env["User"])
            before == PathList(last.pre["User"])
        IN  /\ IsEntry(l, ExposeDirOf(last))
            /\ IsEntry(l, aliasDir)
            /\ IsEntry(l, bunBinDir) <=> (bunExists \/ IsEntry(before, bunBinDir))

C11_Witness ==
    /\ last.cmd = "init"
    /\ last.dir # Empty
    /\ ~bunExists
    /\ IsSubstring(aliasDir, last.pre["User"])
    /\ ~IsEntry(PathList(last.pre["User"]), aliasDir)
    /\ Len(last.writes) = 2
    /\ IsEntry(PathList(env["User"]), aliasDir)
    /\ ~IsEntry(PathList(env["User"]), bunBinDir)

\* init ran to its end and uninstall, confirmed, ran after it
InitThenUninstall ==
    /\ n >= 2
    /\ prev.cmd = "init" /\ prev.exit = 0
    /\ last.cmd = "uninstall" /\ Lower(last.dir) = <<"y">>

Cancelled == last.cmd = "uninstall" /\ last.dir \notin {<<"y">>, <<"Y">>}

\* the shim files on disk
ShimFiles(f) == { q \in DOMAIN f.files : dirname(q) = aliasDir }

\* C13: uninstall writes nothing to PATH before its question is answered,
\* and an answer other than y or Y ends it with exit code 0, User PATH and
\* the file system unchanged.
C13_UninstallWaitsForConfirmation ==
    /\ Asking => (last.writes = <<>> /\ env = last.pre /\ fs = fsPre)
    /\ Cancelled =>
         (last.exit = 0 /\ last.writes = <<>> /\ env = last.pre /\ fs = fsPre)

C13_Witness ==
    /\ Cancelled
    /\ last.dir = <<"y", "e", "s">>
    /\ IsEntry(PathList(env["User"]), aliasDir)
    /\ ShimFiles(fs) # {}
    /\ env = last.pre

\* C14: uninstall leaves every file and directory as it was: the shim
\* files and their contents, the alias directory, the target executables.
C14_UninstallKeepsFiles ==
    last.cmd \in {"uninstall prompt", "uninstall"} =>
        /\ fs.dirs = fsPre.dirs
        /\ DOMAIN fs.files = DOMAIN fsPre.files
        /\ \A q \in DOMAIN fs.files : fs.files[q] = fsPre.files[q]

C14_Witness ==
    /\ last.cmd = "uninstall" /\ ~Cancelled
    /\ env # last.pre
    /\ ShimFiles(fs) # {}
    /\ aliasDir \in fs.dirs
    /\ fs = fsPre

----------------------------------------------------------------------------
(* C15..C20: aliases *)

\* the name matches ^[A-Za-z_][A-Za-z0-9_\-.]*$
MatchesPattern(name) ==
    /\ Len(name) >= 1
    /\ name[1] \in Letters \cup {"_"}
    /\ \A i \in 2..Len(name) : name[i] \in Letters \cup Digits \cup {"_", "-", "."}

\* a creation that named an alias and a target
IsCreate(r) == r.cmd = "alias" /\ r.dir # Empty /\ r.flags.exe # Empty

Rejected(r) == Includes(r.out, "Invalid alias name")

\* the target of a creation, made absolute
ResolvedOf(r) ==
    IF isAbsolute(r.flags.exe) THEN r.flags.exe ELSE PathJoin(cwd, r.flags.exe)

\* nothing was written: not to PATH, not to disk
NothingChanged == last.writes = <<>> /\ env = last.pre /\ fs = fsPre

\* C15: alias creation accepts a name exactly when it matches
\* ^[A-Za-z_][A-Za-z0-9_\-.]*$ (1b, "b n" and b/n are rejected, g_n-1.x is
\* accepted), and a rejected name ends the command with exit code 1 before
\* any change to the file system or to PATH.
C15_NameValidation ==
    IsCreate(last) =>
        /\ Rejected(last) <=> ~MatchesPattern(last.dir)
        /\ last.dir \in {<<"1", "b">>, <<"b", " ", "n">>, <<"b", "/", "n">>}
              => Rejected(last)
        /\ last.dir = <<"g", "_", "n", "-", "1", ".", "x">> => ~Rejected(last)
        /\ Rejected(last) => (last.exit = 1 /\ NothingChanged)

C15_Witness ==
    /\ IsCreate(last)
    /\ last.dir = <<"b", " ", "n">>
    /\ last.flags.path
    /\ ResolvedOf(last) \in DOMAIN fsPre.files
    /\ aliasDir \notin fsPre.dirs
    /\ ~IsEntry(PathList(last.pre["User"]), aliasDir)
    /\ Rejected(last) /\ last.exit = 1 /\ NothingChanged

\* C16: creating an alias whose shim exists fails with exit code 1 and
\* leaves the shim as it is; after the alias is removed, creating it again
\* succeeds; every alias created and not removed has exactly one shim file.
C16_NoOverwrite ==
    /\ (IsCreate(last) /\ ShimPath(last.dir) \in DOMAIN fsPre.files) =>
          /\ last.exit = 1
          /\ fs = fsPre
          /\ ResolvedOf(last) \in DOMAIN fsPre.files
                => Includes(last.out, "Alias already exists")
    /\ ( /\ n >= 2
         /\ prev.cmd = "alias --remove" /\ prev.exit = 0
         /\ IsCreate(last) /\ last.dir = prev.dir
         /\ ResolvedOf(last) \in DOMAIN fsPre.files ) =>
          /\ last.exit = 0
          /\ ShimPath(last.dir) \in DOMAIN fs.files
    /\ Cardinality(ShimFiles(fs)) = Cardinality(live)
    /\ \A name \in live : ShimPath(name) \in ShimFiles(fs)

C16_Witness ==
    /\ n >= 3
    /\ prev.cmd = "alias --remove" /\ prev.exit = 0
    /\ IsCreate(last) /\ last.dir = prev.dir
    /\ last.exit = 0
    /\ ShimPath(last.dir) \in DOMAIN fs.files
    /\ ShimPath(last.dir) \notin DOMAIN fsPre.files
    /\ live = {last.dir}

\* C17: creating an alias whose resolved target does not exist fails with
\* exit code 1, creates no shim, and leaves the alias directory and User
\* PATH as they were.
C17_MissingTarget ==
    ( /\ IsCreate(last)
      /\ ResolvedOf(last) \notin DOMAIN fsPre.files
      /\ ResolvedOf(last) \notin fsPre.dirs ) =>
        /\ last.exit = 1
        /\ ShimFiles(fs) = ShimFiles(fsPre)
        /\ fs = fsPre
        /\ last.writes = <<>> /\ env = last.pre
        /\ MatchesPattern(last.dir) => Includes(last.out, "File not found")

C17_Witness ==
    /\ IsCreate(last) /\ MatchesPattern(last.dir)
    /\ last.flags.exe = MissingExe /\ last.flags.path
    /\ aliasDir \notin fsPre.dirs
    /\ ~IsEntry(PathList(last.pre["User"]), aliasDir)
    /\ last.exit = 1 /\ Includes(last.out, "File not found")
    /\ NothingChanged

\* the names alias --list printed
Listed(r) == { row.name : row \in r.rets[1] }

\* C18: after any sequence of successful creations and removals that starts
\* with an empty alias directory, the names alias --list reports are the
\* names created and not removed, whatever name the pattern accepts.
C18_ListReportsLiveNames ==
    last.cmd = "alias --list" => Listed(last) = live

\* C19: the target alias --list reads back from the shim of an alias is the
\* resolved target the alias was created with, with or without default
\* arguments, and whatever quotes the arguments hold.
C19_TargetRoundTrip ==
    /\ (IsCreate(last) /\ last.exit = 0) =>
          MatchTarget(fs.files[ShimPath(last.dir)]) = ResolvedOf(last)
    /\ ( /\ n >= 2
         /\ IsCreate(prev) /\ prev.exit = 0
         /\ last.cmd = "alias --list" ) =>
          \A row \in last.rets[1] :
              row.name = prev.dir => row.target = ResolvedOf(prev)

C19_Witness ==
    /\ n >= 2
    /\ IsCreate(prev) /\ prev.exit = 0
    /\ prev.flags.args = ArgsGiven
    /\ prev.flags.exe # ResolvedOf(prev)
    /\ last.cmd = "alias --list"
    /\ [name |-> prev.dir, target |-> TargetExe] \in last.rets[1]

\* C20: removing an alias that exists deletes its shim file and nothing
\* else: the other shims, the targets and User PATH stay as they were.
C20_RemoveDeletesOneShim ==
    (last.cmd = "alias --remove" /\ ShimPath(last.dir) \in DOMAIN fsPre.files) =>
        /\ last.exit = 0
        /\ DOMAIN fs.files = DOMAIN fsPre.files \ {ShimPath(last.dir)}
        /\ \A q \in DOMAIN fs.files : fs.files[q] = fsPre.files[q]
        /\ fs.dirs = fsPre.dirs
        /\ env = last.pre

C20_Witness ==
    /\ last.cmd = "alias --remove" /\ last.exit = 0
    /\ Cardinality(ShimFiles(fsPre)) = 2
    /\ Cardinality(ShimFiles(fs)) = 1
    /\ ShimPath(last.dir) \notin DOMAIN fs.files
    /\ env = last.pre

----------------------------------------------------------------------------
(* C21..C24: aliases and PATH, the command line of alias *)

\* an alias was created
Created(r) == IsCreate(r) /\ r.exit = 0

\* C21: after every successful alias creation, whatever User PATH held
\* before, the alias directory is an entry of User PATH.
C21_AliasDirIsEntry ==
    Created(last) => IsEntry(PathList(env["User"]), aliasDir)

\* the file p lies directly in the directory d
LiesIn(p, d) ==
    /\ Len(p) > Len(d) + 1
    /\ SubSeq(p, 1, Len(d)) = d
    /\ p[Len(d) + 1] = "\\"
    /\ \A k \in (Len(d) + 2)..Len(p) : p[k] \notin {"\\", "/"}

\* the list l followed by further entries
Extends(l, old) == Len(l) >= Len(old) /\ SubSeq(l, 1, Len(old)) = old

\* C22: after a successful alias creation with --path the directory of the
\* resolved target is an entry of User PATH, added after the entries that
\* were there; without --path the only entry the creation may add is the
\* alias directory.
C22_PathFlagAddsTargetDir ==
    Created(last) =>
        LET l == PathList(env["User"])
            old == PathList(last.pre["User"])
        IN  /\ Extends(l, old)
            /\ last.flags.path =>
                  \A d \in fsPre.dirs :
                      LiesIn(ResolvedOf(last), d) => IsEntry(l, d)
            /\ ~last.flags.path =>
                  \A i \in 1..Len(l) : Includes(old, l[i]) \/ l[i] = aliasDir

C22_Witness ==
    /\ Created(last)
    /\ last.flags.path
    /\ LiesIn(ResolvedOf(last), cwd)
    /\ last.pre["User"] # Empty
    /\ ~IsEntry(PathList(last.pre["User"]), cwd)
    /\ IsEntry(PathList(env["User"]), cwd)
    /\ Len(PathList(env["User"])) = Len(PathList(last.pre["User"])) + 2

\* the text of a shim from its second line on
InvocationLine(content) == SubSeq(content, Len(BatHeader) + 1, Len(content))

\* the command line is  name exe --args "arguments"
DocumentedArgs(r) ==
    /\ r.cmd = "alias"
    /\ Len(r.flags.argv) = 4
    /\ r.flags.argv[3] = DashArgs
    /\ r.flags.argv[4] # Empty
    /\ ~StartsWith(r.flags.argv[4], DashDash)

\* C23: an alias created as documented, alias name exe --args "-p 3000"
\* with the arguments in the word after --args, gets a shim whose
\* invocation line is the quoted target, the default arguments, and %*.
C23_ArgsAsNextWord ==
    (DocumentedArgs(last) /\ last.exit = 0) =>
        LET argv == last.flags.argv
            target == IF isAbsolute(argv[2]) THEN argv[2] ELSE PathJoin(cwd, argv[2])
        IN  /\ ShimPath(argv[1]) \in DOMAIN fs.files
            /\ InvocationLine(fs.files[ShimPath(argv[1])]) =
                  <<Quote>> \o target \o <<Quote, " ">> \o argv[4] \o <<" ", "%", "*">>

\* the command line is one word, the name of a file of the current directory
SinglePositional(r) ==
    /\ r.cmd = "alias"
    /\ Len(r.flags.argv) = 1
    /\ ~StartsWith(r.flags.argv[1], DashDash)
    /\ PathJoin(cwd, r.flags.argv[1]) \in DOMAIN fsPre.files

\* C24: alias with one positional argument that names a program of the
\* current directory (expose alias mytool.exe) creates an alias whose
\* target is that file, resolved against the current directory.
C24_SinglePositional ==
    SinglePositional(last) =>
        /\ last.exit = 0
        /\ \E q \in ShimFiles(fs) \ ShimFiles(fsPre) :
              MatchTarget(fs.files[q]) = PathJoin(cwd, last.flags.argv[1])

\* C29: alias creation tests for an existing shim before it changes PATH: a
\* creation that fails because the name exists leaves User PATH as it was,
\* with --path too, and the directory of the target is not added.
C29_ExistsCheckBeforePath ==
    (IsCreate(last) /\ Includes(last.out, "Alias already exists")) =>
        /\ last.exit = 1
        /\ last.writes = <<>>
        /\ env["User"] = last.pre["User"]
        /\ IsEntry(PathList(env["User"]), cwd)
              => IsEntry(PathList(last.pre["User"]), cwd)

C29_Witness ==
    /\ IsCreate(last) /\ Includes(last.out, "Alias already exists")
    /\ last.flags.path
    /\ LiesIn(ResolvedOf(last), cwd)
    /\ ~IsEntry(PathList(last.pre["User"]), cwd)
    /\ ~IsEntry(PathList(env["User"]), cwd)
    /\ last.exit = 1

\* C30: when PATH of the scope is empty or missing, add(D), appending or
\* prepending, writes a PATH whose list is exactly [D]: no empty entry
\* before or after it.
C30_AddToEmptyPath ==
    ( /\ IsAdd(last)
      /\ last.pre[Target(last)] = Empty
      /\ (Target(last) = "User" \/ elevated) )
    => /\ env[Target(last)] = Asked(last)
       /\ PathList(env[Target(last)]) = <<Asked(last)>>

\* the commands that take --system, and the scope a command works on
ScopedCmds == {"add --path", "add", "add --delete"}

ScopeOf(r) == IF r.cmd \in ScopedCmds /\ r.flags.system THEN "Machine" ELSE "User"

OtherScope(scope) == IF scope = "User" THEN "Machine" ELSE "User"

KeysOf(scope) == {scope, VarKey(scope)}

Finished(r) == r.cmd \notin {"none", "uninstall prompt"}

\* C25: every command leaves the variables of the other scope as they were
\* and attempts writes in its own scope only (Machine with --system, User
\* otherwise and for init, alias and uninstall); and a command whose write to
\* the Machine scope is refused changes nothing in the store and exits 1
C25_ScopeIsolation ==
    Finished(last) =>
        /\ \A k \in KeysOf(OtherScope(ScopeOf(last))) : env[k] = last.pre[k]
        /\ \A i \in 1..Len(last.writes) : last.writes[i].scope = ScopeOf(last)
        /\ (ScopeOf(last) = "Machine" /\ ~elevated /\ last.writes # <<>>)
               => (env = last.pre /\ last.exit = 1)

\* a store write of the command was refused
WriteRefused(r) == \E i \in 1..Len(r.writes) : ~CanWrite(r.writes[i].scope)

\* the command came to a store call while powershell cannot be started
HelperNotSpawned(r) ==
    /\ fault = "spawn"
    /\ \/ r.cmd \in {"init", "add --path"}
       \/ r.cmd = "uninstall" /\ r.rets # <<>>
       \/ r.cmd \in {"add", "add --delete"}
              /\ Includes(r.out, "Error executing PowerShell")
       \/ r.cmd = "alias" /\ r.dir # Empty
              /\ ShimPath(r.dir) \in DOMAIN fs.files \ DOMAIN fsPre.files

\* C26: a command in which a store write fails, because the helper reports
\* the failure or because the helper cannot be started, ends with an exit
\* code other than 0: add --path, add VAR=value, add --delete, init, alias
\* creation and uninstall alike
C26_FailedWriteExitsNonZero ==
    (Finished(last) /\ (WriteRefused(last) \/ HelperNotSpawned(last)))
        => last.exit # 0

\* the commands that add entries to PATH
Adding(r) == r.cmd \in {"alias", "init", "add --path"}

\* the directory a write of an adding command is for: the last entry of the
\* value it writes
DirOfWrite(w) == LET l == Split(w.value) IN l[Len(l)]

\* write j of the command is a further attempt for the directory of the
\* refused write i
Retried(r, i, j) ==
    /\ i < j
    /\ ~CanWrite(r.writes[i].scope)
    /\ DirOfWrite(r.writes[j]) = DirOfWrite(r.writes[i])

Overtaken == inflight.kind # "none" /\ inflight.done /\ inflight.others # {}

\* C28: adding to PATH is a read followed by a write with nothing to guard
\* the pair: when another process changes PATH of the same scope between the
\* read and the write of an add that goes on to write, the add writes the
\* value it built from what it read, that value replaces the whole PATH, and
\* the entry the other process added is no longer in it
C28_LostUpdate ==
    (Overtaken /\ ~Includes(Split(inflight.read), inflight.dir)) =>
        /\ inflight.writes # <<>>
        /\ inflight.after # inflight.before
        /\ \A e \in inflight.others : ~Includes(Split(inflight.after), e)
        /\ \A e \in inflight.others : Includes(Split(inflight.before), e)

C28_Witness ==
    /\ Overtaken
    /\ inflight.kind = "addDirToPath"
    /\ inflight.writes # <<>>
    /\ inflight.after = inflight.read \o <<";">> \o inflight.dir
    /\ env[inflight.scope] = inflight.after

\* C31: alias --list with no alias directory on disk reports no alias and
\* exits 0; it does not create the directory and leaves the file system and
\* PATH as they were
C31_ListWithoutDir ==
    (last.cmd = "alias --list" /\ aliasDir \notin fsPre.dirs) =>
        /\ last.rets[1] = {}
        /\ Includes(last.out, "No aliases found")
        /\ last.exit = 0
        /\ aliasDir \notin fs.dirs
        /\ fs = fsPre
        /\ last.writes = <<>> /\ env = last.pre

C31_Witness ==
    /\ last.cmd = "alias --list"
    /\ aliasDir \notin fsPre.dirs
    /\ prev.cmd = "alias" /\ prev.exit = 1
    /\ last.rets[1] = {} /\ last.exit = 0
    /\ aliasDir \notin fs.dirs

\* C32: alias --remove of a name that has no shim file fails with "does not
\* exist" and exit code 1, and leaves the alias directory, the rest of the
\* file system and PATH as they were
C32_RemoveMissing ==
    ( /\ last.cmd = "alias --remove" /\ last.dir # Empty
      /\ ShimPath(last.dir) \notin DOMAIN fsPre.files ) =>
        /\ last.exit = 1
        /\ Includes(last.out, "Alias does not exist")
        /\ fs = fsPre
        /\ last.writes = <<>> /\ env = last.pre

C32_Witness ==
    /\ last.cmd = "alias --remove" /\ last.dir = <<"c">>
    /\ ShimFiles(fsPre) # {}
    /\ ShimPath(last.dir) \notin DOMAIN fsPre.files
    /\ last.exit = 1
    /\ fs = fsPre /\ env = last.pre

\* the text before the first "=" of an argument and the text after it
BeforeFirstEq(arg) ==
    LET k == CHOOSE i \in 1..Len(arg) :
                 arg[i] = "=" /\ \A j \in 1..(i - 1) : arg[j] # "="
    IN  SubSeq(arg, 1, k - 1)

AfterFirstEq(arg) == SubSeq(arg, Len(BeforeFirstEq(arg)) + 2, Len(arg))

WellFormed(arg) ==
    /\ \E i \in 1..Len(arg) : arg[i] = "="
    /\ BeforeFirstEq(arg) # Empty
    /\ BeforeFirstEq(arg)[1] \in Letters \cup {"_"}
    /\ \A i \in 2..Len(BeforeFirstEq(arg)) :
           BeforeFirstEq(arg)[i] \in Letters \cup Digits \cup {"_"}

\* C33: add VAR=value sets the variable named by the text before the first
\* "=" to everything after that "=", further "=" included; an argument
\* without "=", with nothing before it, or with a name outside
\* ^[a-zA-Z_][a-zA-Z0-9_]*$ ends with exit code 1 and no store call
C33_AssignmentParsing ==
    last.cmd = "add" =>
        IF WellFormed(last.dir)
        THEN /\ Spawns => Len(last.writes) = 1
             /\ \A i \in 1..Len(last.writes) :
                    last.writes[i].value = AfterFirstEq(last.dir)
             /\ last.exit = 0 =>
                    env[StoreKey(BeforeFirstEq(last.dir), ScopeOf(last))]
                        = AfterFirstEq(last.dir)
        ELSE /\ last.exit = 1
             /\ last.writes = <<>>
             /\ env = last.pre
             /\ ~Includes(last.out, "Error executing PowerShell")

\* C34: provided every spawned helper closes or fails to start and the
\* prompt of uninstall is answered, a command makes no more helper calls and
\* file system calls than its handler holds, and ends with exit code 0 or 1
C34_CommandTerminates ==
    /\ [](inflight.kind = "command" =>
            /\ inflight.calls <= CountOp(inflight.prog, "spawn")
            /\ inflight.ops <= CountOp(inflight.prog, "fs")
            /\ Exited => inflight.exit \in {0, 1})
    /\ (Running ~> Exited)

C34_Witness ==
    /\ Exited
    /\ inflight.cmd = "alias"
    /\ inflight.calls = 5
    /\ inflight.exit = 0

\* C35: alias --remove deletes only files that lie directly in the alias
\* directory, whatever name it is given, names with separators or ".."
\* included
C35_RemoveStaysInAliasDir ==
    last.cmd = "alias --remove" =>
        \A q \in DOMAIN fsPre.files \ DOMAIN fs.files :
            SubSeq(q, 1, LastSep(q) - 1) = aliasDir

\* the process has written its shim
Wrote(p) == inflight.proc[p].pc \in {"written", "done"}

SameName(p, q) == inflight.proc[p].aliasName = inflight.proc[q].aliasName

\* C36: of two alias creations for one name that run at the same time, at
\* most one writes the shim: no creation writes a shim that another one has
\* written
C36_OneCreateWrites ==
    Creating =>
        \A p, q \in Procs : (p # q /\ SameName(p, q) /\ Wrote(p)) => ~Wrote(q)

EndsWithSeparator(str) == Len(str) > 0 /\ str[Len(str)] \in {"/", "\\"}

\* C37: the normalisation of a directory leaves no "/" and no "\" at the end
\* of any string, and applied to its own result it returns that result
C37_NormalizeIdempotent ==
    inflight.kind = "normalize" =>
        /\ inflight.applied >= 1 => ~EndsWithSeparator(inflight.value)
        /\ inflight.applied >= 2 => inflight.value = inflight.before

\* C38: the alias tool kept for compatibility and the alias subcommand of
\* the main CLI, given the same creation on the same disk and store, end
\* with the same exit code, the same files and contents in the alias
\* directory, and the same User PATH
C38_LegacyEquivalent ==
    inflight.kind = "legacy" =>
        /\ inflight.exit = last.exit
        /\ ShimFiles(inflight.fs) = ShimFiles(fs)
        /\ \A q \in ShimFiles(fs) \cap ShimFiles(inflight.fs) :
               inflight.fs.files[q] = fs.files[q]
        /\ inflight.path = env["User"]

====
